---- MODULE Spec2Model ----
(***************************************************************************)
(* NewareNDA: decoding of Neware .nda / .ndax battery-cycler files.        *)
(*                                                                         *)
(* Strings the code splits, concatenates or lower-cases are sequences of   *)
(* one-character strings, so that str.split, str.lower and + are computed  *)
(* and not assumed.                                                        *)
(***************************************************************************)
EXTENDS Integers, Sequences, FiniteSets, TLC

VARIABLES
    cStatus,    \* _generate_cycle_number: df['Status'].values
    cArg,       \* _generate_cycle_number: cycle_mode as the caller passed it
    cMode,      \* _generate_cycle_number: the cycle_mode argument, then the resolved mode
    cKeys,      \* _generate_cycle_number: inkey / offkey
    cInc,       \* _generate_cycle_number: the inc array (edge marks, overwritten by cycle numbers)
    cN,         \* _generate_cycle_number: loop variable n (1-based here)
    cCyc,       \* _generate_cycle_number: cyc
    cFlag,      \* _generate_cycle_number: Flag
    cPc,        \* _generate_cycle_number: position in the function
    cHist,      \* history: the Flag value seen before each row was processed
    iDf,        \* _data_interpolation: the table df, one sequence per column
    iDf0,       \* history: df as it was on entry
    nan_mask,   \* _data_interpolation: nan_mask
    iWarned,    \* whether logging.warning was called
    iPc,        \* _data_interpolation: position in the function
    file,       \* the file handed to read_nda / read_ndax: container kind and header bytes
    software_cycle_number,  \* argument of read_nda / read_ndax
    dMode,      \* argument cycle_mode of read_nda / read_ndax
    dPc,        \* position in read_nda / read_ndax
    stream,     \* the byte stream being walked (mm)
    nRead,      \* number of records kept so far by the decode in progress
    nAux,       \* read_ndax: channel numbers of the auxiliary streams already read
    lastRaw,    \* the frame most recently handed to a record decoder
    output,     \* the list of decoded main records
    aux,        \* the list of decoded auxiliary records
    parts,      \* split archive: the three role tables (data_df, runInfo_df, step_df)
    dDf,        \* read_nda: df, read_ndax: data_df (None when read_ndc returned no table)
    dStep0,     \* history: the Step column before _count_changes replaced it
    dWarned,    \* whether the reconstructed-data warning was logged
    dErr,       \* the exception that ended the decode, "none" otherwise
    mm,         \* _read_nda_29: the buffer, as far as the scan for the data section reads it
    header,     \* _read_nda_29: header
    sPc         \* _read_nda_29: position in the scan

cycVars == <<cStatus, cArg, cMode, cKeys, cInc, cN, cCyc, cFlag, cPc, cHist>>

intVars == <<iDf, iDf0, nan_mask, iWarned, iPc>>

decVars == <<file, software_cycle_number, dMode, dPc, stream, nRead, nAux, lastRaw,
             output, aux, parts, dDf, dStep0, dWarned, dErr>>

scanVars == <<mm, header, sPc>>

vars == <<cycVars, intVars, decVars, scanVars>>

nonCycVars == <<intVars, decVars, scanVars>>

nonIntVars == <<cycVars, decVars, scanVars>>

nonDecVars == <<cycVars, intVars, scanVars>>

nonScanVars == <<cycVars, intVars, decVars>>

-----------------------------------------------------------------------------
(* Bounds *)

MaxCycRows == 4

\* marker occurrences a scanned buffer holds at record distance
MaxMarkers == 2

MaxIRows == 4

MaxTime == 2

MaxFrames == 3

MaxIndex == 3

\* records kept from the streams of a split archive
MaxSplitRecs == 4

-----------------------------------------------------------------------------
(* dicts.py: Status names *)

CC_Chg    == <<"C","C","_","C","h","g">>
CC_DChg   == <<"C","C","_","D","C","h","g">>
CV_Chg    == <<"C","V","_","C","h","g">>
Rest      == <<"R","e","s","t">>
Cycle     == <<"C","y","c","l","e">>
CCCV_Chg  == <<"C","C","C","V","_","C","h","g">>
CR_DChg   == <<"C","R","_","D","C","h","g">>
Pause     == <<"P","a","u","s","e">>
SIM       == <<"S","I","M">>
CV_DChg   == <<"C","V","_","D","C","h","g">>
CCCV_DChg == <<"C","C","C","V","_","D","C","h","g">>

state_dict ==
    [c \in {1, 2, 3, 4, 5, 7, 10, 13, 17, 19, 20} |->
        CASE c = 1  -> CC_Chg
          [] c = 2  -> CC_DChg
          [] c = 3  -> CV_Chg
          [] c = 4  -> Rest
          [] c = 5  -> Cycle
          [] c = 7  -> CCCV_Chg
          [] c = 10 -> CR_DChg
          [] c = 13 -> Pause
          [] c = 17 -> SIM
          [] c = 19 -> CV_DChg
          [] c = 20 -> CCCV_DChg]

StatusNames == {state_dict[c] : c \in DOMAIN state_dict}

-----------------------------------------------------------------------------
(* Python str operations used by the code *)

\* str.lower() on the letters that occur in status names and mode strings
LowerChar(ch) ==
    CASE ch = "C" -> "c"
      [] ch = "D" -> "d"
      [] ch = "V" -> "v"
      [] ch = "R" -> "r"
      [] ch = "P" -> "p"
      [] ch = "S" -> "s"
      [] ch = "I" -> "i"
      [] ch = "M" -> "m"
      [] ch = "A" -> "a"
      [] ch = "H" -> "h"
      [] ch = "G" -> "g"
      [] OTHER    -> ch

lower(s) == [i \in 1..Len(s) |-> LowerChar(s[i])]

\* position of the first "_" in s, 0 when there is none
FirstUnderscore(s) ==
    IF \E i \in 1..Len(s) : s[i] = "_"
    THEN CHOOSE i \in 1..Len(s) : s[i] = "_" /\ \A j \in 1..(i-1) : s[j] # "_"
    ELSE 0

\* a, b = s.split('_', 1): ok is FALSE when the unpacking raises ValueError
split(s) ==
    LET p == FirstUnderscore(s) IN
    IF p = 0
    THEN [ok |-> FALSE, method |-> s, state |-> <<>>]
    ELSE [ok |-> TRUE, method |-> SubSeq(s, 1, p-1), state |-> SubSeq(s, p+1, Len(s))]

-----------------------------------------------------------------------------
(* NewareNDA.py: _id_first_state *)

RECURSIVE FirstNonRest(_)
FirstNonRest(status) ==
    IF status = <<>> THEN <<>>
    ELSE IF Head(status) # Rest THEN <<Head(status)>>
    ELSE FirstNonRest(Tail(status))

\* mutant: takes the first row instead of the first non-Rest row
_id_first_state_NoSkip(status) ==
    IF Len(status) > 0
    THEN LET sp == split(status[1]) IN
         IF sp.ok THEN lower(sp.state) ELSE <<"c","h","g">>
    ELSE <<"c","h","g">>

_id_first_state(status) ==
    LET nonrest_states == FirstNonRest(status) IN
    IF Len(nonrest_states) > 0
    THEN LET sp == split(nonrest_states[1]) IN
         IF sp.ok THEN lower(sp.state) ELSE <<"c","h","g">>
    ELSE <<"c","h","g">>

-----------------------------------------------------------------------------
(* NewareNDA.py: _generate_cycle_number *)

Chg  == <<"C","h","g">>
DChg == <<"D","C","h","g">>

\* lines 297-309: the mode after 'auto' is resolved
ResolveMode(status, cycle_mode) ==
    IF lower(cycle_mode) = <<"a","u","t","o">> THEN _id_first_state(status) ELSE cycle_mode

\* lines 301-309: inkey / offkey, or KeyError
ModeKeys(mode) ==
    IF lower(mode) = <<"c","h","g">>
    THEN [ok |-> TRUE, inkey |-> Chg, offkey |-> DChg]
    ELSE IF lower(mode) = <<"d","c","h","g">>
    THEN [ok |-> TRUE, inkey |-> DChg, offkey |-> Chg]
    ELSE [ok |-> FALSE, inkey |-> <<>>, offkey |-> <<>>]

\* line 312: membership in the incremental statuses
IsIncStatus(st, inkey) ==
    \/ st = <<"C","C","C","V","_">> \o inkey
    \/ st = <<"C","C","_">> \o inkey
    \/ st = <<"C","P","_">> \o inkey

\* lines 312-316: 1 at a new incremental step, 0 otherwise; the first row is set to 1
IncMarks(status, inkey) ==
    [n \in 1..Len(status) |->
        IF n = 1 THEN 1
        ELSE IF IsIncStatus(status[n], inkey) /\ ~IsIncStatus(status[n-1], inkey)
             THEN 1 ELSE 0]

\* mutant: increments whenever Flag is set, on any parseable row
CycleStep_AnyRow(cyc, Flag, status_n, inc_n, offkey) ==
    LET sp == split(status_n) IN
    IF ~sp.ok
    THEN [cyc |-> cyc, Flag |-> IF status_n = SIM THEN TRUE ELSE Flag]
    ELSE IF Flag
    THEN [cyc |-> cyc + 1, Flag |-> FALSE]
    ELSE IF sp.state = offkey
    THEN [cyc |-> cyc, Flag |-> TRUE]
    ELSE [cyc |-> cyc, Flag |-> Flag]

\* mutant: does not clear Flag when it increments
CycleStep_KeepFlag(cyc, Flag, status_n, inc_n, offkey) ==
    LET sp == split(status_n) IN
    IF ~sp.ok
    THEN [cyc |-> cyc, Flag |-> IF status_n = SIM THEN TRUE ELSE Flag]
    ELSE IF inc_n = 1 /\ Flag
    THEN [cyc |-> cyc + 1, Flag |-> Flag]
    ELSE IF sp.state = offkey
    THEN [cyc |-> cyc, Flag |-> TRUE]
    ELSE [cyc |-> cyc, Flag |-> Flag]

\* lines 326-340: one pass of the loop body on row status_n with mark inc_n
CycleStep(cyc, Flag, status_n, inc_n, offkey) ==
    LET sp == split(status_n) IN
    IF ~sp.ok
    THEN [cyc |-> cyc, Flag |-> IF status_n = SIM THEN TRUE ELSE Flag]
    ELSE IF inc_n = 1 /\ Flag
    THEN [cyc |-> cyc + 1, Flag |-> FALSE]
    ELSE IF sp.state = offkey
    THEN [cyc |-> cyc, Flag |-> TRUE]
    ELSE [cyc |-> cyc, Flag |-> Flag]

\* lines 322-345 as a fold: the returned array
RECURSIVE CycleFold(_, _, _, _, _, _)
CycleFold(status, inc, offkey, n, cyc, Flag) ==
    IF n > Len(status) THEN <<>>
    ELSE LET s == CycleStep(cyc, Flag, status[n], inc[n], offkey) IN
         <<s.cyc>> \o CycleFold(status, inc, offkey, n + 1, s.cyc, s.Flag)

\* the whole function: err is "KeyError" for an unknown mode, "IndexError" for
\* inc.iat[0] on an empty table
_generate_cycle_number(status, cycle_mode) ==
    LET keys == ModeKeys(ResolveMode(status, cycle_mode)) IN
    IF ~keys.ok THEN [err |-> "KeyError", val |-> <<>>]
    ELSE IF Len(status) = 0 THEN [err |-> "IndexError", val |-> <<>>]
    ELSE [err |-> "none",
          val |-> CycleFold(status, IncMarks(status, keys.inkey), keys.offkey, 1, 1, FALSE)]

-----------------------------------------------------------------------------
(* _generate_cycle_number step by step *)

RECURSIVE SeqsUpTo(_, _)
SeqsUpTo(S, n) ==
    IF n = 0 THEN {<<>>}
    ELSE LET shorter == SeqsUpTo(S, n - 1) IN
         shorter \cup {Append(s, x) : s \in {t \in shorter : Len(t) = n - 1}, x \in S}

CycleModes ==
    { <<"c","h","g">>, <<"d","c","h","g">>, <<"a","u","t","o">>,
      <<"D","C","h","g">>, <<"c","h","a","r","g","e">> }

CycInit ==
    /\ cStatus \in SeqsUpTo(StatusNames, MaxCycRows)
    /\ cArg \in CycleModes
    /\ cMode = cArg
    /\ cKeys = [ok |-> FALSE, inkey |-> <<>>, offkey |-> <<>>]
    /\ cInc = <<>>
    /\ cN = 0
    /\ cCyc = 0
    /\ cFlag = FALSE
    /\ cPc = "auto"
    /\ cHist = <<>>

\* _generate_cycle_number is not running
CycIdle ==
    /\ cStatus = <<>>
    /\ cArg = <<>>
    /\ cMode = <<>>
    /\ cKeys = [ok |-> FALSE, inkey |-> <<>>, offkey |-> <<>>]
    /\ cInc = <<>>
    /\ cN = 0
    /\ cCyc = 0
    /\ cFlag = FALSE
    /\ cPc = "idle"
    /\ cHist = <<>>

\* lines 297-299
CycAuto ==
    /\ cPc = "auto"
    /\ cMode' = ResolveMode(cStatus, cMode)
    /\ cPc' = "keys"
    /\ UNCHANGED <<cStatus, cArg, cKeys, cInc, cN, cCyc, cFlag, cHist>>
    /\ UNCHANGED nonCycVars

\* lines 301-307
CycKeys ==
    /\ cPc = "keys"
    /\ ModeKeys(cMode).ok
    /\ cKeys' = ModeKeys(cMode)
    /\ cPc' = "marks"
    /\ UNCHANGED <<cStatus, cArg, cMode, cInc, cN, cCyc, cFlag, cHist>>
    /\ UNCHANGED nonCycVars

\* lines 308-309
CycKeyError ==
    /\ cPc = "keys"
    /\ ~ModeKeys(cMode).ok
    /\ cPc' = "KeyError"
    /\ UNCHANGED <<cStatus, cArg, cMode, cKeys, cInc, cN, cCyc, cFlag, cHist>>
    /\ UNCHANGED nonCycVars

\* lines 311-324
CycMarks ==
    /\ cPc = "marks"
    /\ Len(cStatus) > 0
    /\ cInc' = IncMarks(cStatus, cKeys.inkey)
    /\ cCyc' = 1
    /\ cFlag' = FALSE
    /\ cN' = 1
    /\ cPc' = "loop"
    /\ UNCHANGED <<cStatus, cArg, cMode, cKeys, cHist>>
    /\ UNCHANGED nonCycVars

\* line 316 on an empty table: inc.iat[0] raises IndexError
CycIndexError ==
    /\ cPc = "marks"
    /\ Len(cStatus) = 0
    /\ cPc' = "IndexError"
    /\ UNCHANGED <<cStatus, cArg, cMode, cKeys, cInc, cN, cCyc, cFlag, cHist>>
    /\ UNCHANGED nonCycVars

\* lines 325-343: one iteration
CycRow ==
    /\ cPc = "loop"
    /\ cN <= Len(cStatus)
    /\ LET s == CycleStep(cCyc, cFlag, cStatus[cN], cInc[cN], cKeys.offkey) IN
        /\ cCyc' = s.cyc
        /\ cFlag' = s.Flag
        /\ cInc' = [cInc EXCEPT ![cN] = s.cyc]
    /\ cHist' = Append(cHist, cFlag)
    /\ cN' = cN + 1
    /\ UNCHANGED <<cStatus, cArg, cMode, cKeys, cPc>>
    /\ UNCHANGED nonCycVars

\* line 345
CycReturn ==
    /\ cPc = "loop"
    /\ cN > Len(cStatus)
    /\ cPc' = "done"
    /\ UNCHANGED <<cStatus, cArg, cMode, cKeys, cInc, cN, cCyc, cFlag, cHist>>
    /\ UNCHANGED nonCycVars

CycNext ==
    \/ CycAuto
    \/ CycKeys
    \/ CycKeyError
    \/ CycMarks
    \/ CycIndexError
    \/ CycRow
    \/ CycReturn

-----------------------------------------------------------------------------
(* pandas Series operations used by _data_interpolation.                   *)
(* A cell is [nul, v]: nul is TRUE for NaN / NaT. Numbers are exact: Time  *)
(* and Timestamp are counted in 1/TimeUnit seconds, capacities in          *)
(* 1/(3600*TimeUnit) mAh and energies in 1/(3600*TimeUnit) mWh, so that    *)
(* the divisions of the code leave no remainder.                           *)

NaN == [nul |-> TRUE, v |-> 0]

Known(x) == [nul |-> FALSE, v |-> x]

RECURSIVE Factorial(_)
Factorial(n) == IF n <= 1 THEN 1 ELSE n * Factorial(n - 1)

TimeUnit == Factorial(MaxIRows)

RECURSIVE SumOver(_, _)
SumOver(f, S) ==
    IF S = {} THEN 0
    ELSE LET j == CHOOSE k \in S : TRUE IN f[j] + SumOver(f, S \ {j})

MaxOf(S) == CHOOSE m \in S : \A k \in S : k <= m

MinOf(S) == CHOOSE m \in S : \A k \in S : m <= k

notnull(x) == [i \in 1..Len(x) |-> ~x[i].nul]

any(mask) == \E i \in 1..Len(mask) : mask[i]

\* cumsum of a boolean Series
cumsum_bool(mask) == [i \in 1..Len(mask) |-> Cardinality({j \in 1..i : mask[j]})]

diff(x) ==
    [i \in 1..Len(x) |->
        IF i = 1 \/ x[i].nul \/ x[i-1].nul THEN NaN ELSE Known(x[i].v - x[i-1].v)]

ffill(x) ==
    [i \in 1..Len(x) |->
        LET S == {j \in 1..i : ~x[j].nul} IN
        IF S = {} THEN NaN ELSE x[MaxOf(S)]]

shift(x) == [i \in 1..Len(x) |-> IF i = 1 THEN NaN ELSE x[i-1]]

fillna(x, c) == [i \in 1..Len(x) |-> IF x[i].nul THEN Known(c) ELSE x[i]]

add(x, y) ==
    [i \in 1..Len(x) |-> IF x[i].nul \/ y[i].nul THEN NaN ELSE Known(x[i].v + y[i].v)]

\* a Series times a column of plain numbers
times(x, c) == [i \in 1..Len(x) |-> IF x[i].nul THEN NaN ELSE Known(x[i].v * c[i])]

abs(c) == [i \in 1..Len(c) |-> IF c[i] < 0 THEN -c[i] ELSE c[i]]

\* mutant: takes the other Series on every row
where_Always(x, cond, other) == other

\* x.where(cond, other) with a Series other
where(x, cond, other) == [i \in 1..Len(x) |-> IF cond[i] THEN x[i] ELSE other[i]]

\* x.where(cond, 0)
where_zero(x, cond) == [i \in 1..Len(x) |-> IF cond[i] THEN x[i] ELSE Known(0)]

\* x.groupby(key).cumsum(): NaN stays NaN and is skipped by the running sum
groupby_cumsum(x, key) ==
    [i \in 1..Len(x) |->
        IF x[i].nul THEN NaN
        ELSE Known(SumOver([j \in 1..Len(x) |-> x[j].v],
                           {j \in 1..i : key[j] = key[i] /\ ~x[j].nul}))]

\* x.groupby(key).transform(interpolate(limit_area='inside')): a NaN with a known
\* value before and after it in its group is filled linearly by position in the group
groupby_interpolate_inside(x, key) ==
    [i \in 1..Len(x) |->
        IF ~x[i].nul THEN x[i]
        ELSE LET G == {j \in 1..Len(x) : key[j] = key[i]}
                 L == {j \in G : j < i /\ ~x[j].nul}
                 R == {j \in G : j > i /\ ~x[j].nul}
             IN  IF L = {} \/ R = {} THEN NaN
                 ELSE LET l == MaxOf(L)
                          r == MinOf(R)
                          a == Cardinality({j \in G : l < j /\ j <= i})
                          b == Cardinality({j \in G : l < j /\ j <= r})
                      IN  Known(x[l].v + ((x[r].v - x[l].v) * a) \div b)]

-----------------------------------------------------------------------------
(* NewareNDAx.py: _data_interpolation *)

\* lines 117-119
InterpolateTime(df) ==
    [df EXCEPT !.Time = groupby_interpolate_inside(df.Time, df.Step)]

\* lines 121-125
ExtrapolateTime(df) ==
    LET nan_mask2 == notnull(df.Time)
        time_inc  == groupby_cumsum(ffill(diff(df.Time)), cumsum_bool(nan_mask2))
        time      == add(ffill(df.Time), shift(time_inc))
    IN  [df EXCEPT !.Time = where(df.Time, nan_mask2, time)]

\* lines 127-131
FillTimestamp(df, mask) ==
    LET time_inc  == groupby_cumsum(diff(df.Time), cumsum_bool(mask))
        timestamp == add(ffill(df.Timestamp), fillna(shift(time_inc), 0))
    IN  [df EXCEPT !.Timestamp = where(df.Timestamp, mask, timestamp)]

Positive(c) == [i \in 1..Len(c) |-> c[i] > 0]

Negative(c) == [i \in 1..Len(c) |-> c[i] < 0]

\* line 134
CapacityIncrement(df) == times(diff(df.Time), abs(df.Current))

\* lines 133-141
FillCapacity(df, mask) ==
    LET capacity == CapacityIncrement(df)
        inc == groupby_cumsum(capacity, cumsum_bool(mask))
        chg == add(ffill(df.Charge_Capacity), shift(where_zero(inc, Positive(df.Current))))
        dch == add(ffill(df.Discharge_Capacity), shift(where_zero(inc, Negative(df.Current))))
    IN  [df EXCEPT !.Charge_Capacity = where(df.Charge_Capacity, mask, chg),
                   !.Discharge_Capacity = where(df.Discharge_Capacity, mask, dch)]

\* lines 143-151
FillEnergy(df, mask) ==
    LET energy == times(CapacityIncrement(df), df.Voltage)
        inc == groupby_cumsum(energy, cumsum_bool(mask))
        chg == add(ffill(df.Charge_Energy), shift(where_zero(inc, Positive(df.Current))))
        dch == add(ffill(df.Discharge_Energy), shift(where_zero(inc, Negative(df.Current))))
    IN  [df EXCEPT !.Charge_Energy = where(df.Charge_Energy, mask, chg),
                   !.Discharge_Energy = where(df.Discharge_Energy, mask, dch)]

\* line 113: the condition under which the warning is logged
ShouldWarn(mask) == any(mask)

\* the whole function applied to a table; warned tells whether the warning was logged
_data_interpolation(df) ==
    LET mask == notnull(df.Time) IN
    [warned |-> ShouldWarn(mask),
     df |-> FillEnergy(FillCapacity(FillTimestamp(
                ExtrapolateTime(InterpolateTime(df)), mask), mask), mask)]

-----------------------------------------------------------------------------
(* _data_interpolation step by step, on the tables the split-archive join  *)
(* can hand it: a row absent from data_runInfo.ndc misses Time, Timestamp, *)
(* capacities and energies together, and takes the forward-filled Step     *)
(* (Step 0 stands for the NaN Step of rows before the first known row).    *)

\* one row as the join leaves it: absent from data_runInfo.ndc, or present with
\* its Time t, opening a new Step or not
RowKinds ==
    {[known |-> FALSE, t |-> 0, newStep |-> FALSE]} \cup
    {[known |-> TRUE, t |-> x, newStep |-> b] : x \in 0..MaxTime, b \in BOOLEAN}

\* the Step column: a known row may open a new step, a missing row inherits
StepColumn(rows) ==
    [i \in 1..Len(rows) |->
        LET K == {j \in 1..i : rows[j].known} IN
        IF K = {} THEN 0
        ELSE 1 + Cardinality({j \in K : rows[j].newStep /\ j # MinOf(K)})]

\* a cumulative column: c per row on the known rows
KnownColumn(rows, c) ==
    [i \in 1..Len(rows) |-> IF rows[i].known THEN Known(c * i * TimeUnit) ELSE NaN]

SplitTable(rows, cur, q) ==
    [Step      |-> StepColumn(rows),
     Time      |-> [i \in 1..Len(rows) |->
                       IF rows[i].known THEN Known(rows[i].t * TimeUnit) ELSE NaN],
     Timestamp |-> [i \in 1..Len(rows) |->
                       IF rows[i].known THEN Known((100 + i) * TimeUnit) ELSE NaN],
     Voltage   |-> [i \in 1..Len(rows) |-> 3],
     Current   |-> [i \in 1..Len(rows) |-> cur],
     Charge_Capacity    |-> KnownColumn(rows, q),
     Discharge_Capacity |-> KnownColumn(rows, q),
     Charge_Energy      |-> KnownColumn(rows, 3 * q),
     Discharge_Energy   |-> KnownColumn(rows, 3 * q)]

IntInit ==
    /\ \E n \in 0..MaxIRows :
         \E rows \in [1..n -> RowKinds], cur \in {-2, 0, 3}, q \in {0, 5} :
             iDf = SplitTable(rows, cur, q)
    /\ iDf0 = iDf
    /\ nan_mask = <<>>
    /\ iWarned = FALSE
    /\ iPc = "mask"

\* _data_interpolation is not running
IntIdle ==
    /\ iDf = <<>>
    /\ iDf0 = <<>>
    /\ nan_mask = <<>>
    /\ iWarned = FALSE
    /\ iPc = "idle"

\* lines 110-111
IntMask ==
    /\ iPc = "mask"
    /\ nan_mask' = notnull(iDf.Time)
    /\ iPc' = "check"
    /\ UNCHANGED <<iDf, iDf0, iWarned>>
    /\ UNCHANGED nonIntVars

\* lines 113-115, condition true
IntWarn ==
    /\ iPc = "check"
    /\ ShouldWarn(nan_mask)
    /\ iWarned' = TRUE
    /\ iPc' = "interpolate"
    /\ UNCHANGED <<iDf, iDf0, nan_mask>>
    /\ UNCHANGED nonIntVars

\* line 113, condition false
IntNoWarn ==
    /\ iPc = "check"
    /\ ~ShouldWarn(nan_mask)
    /\ iPc' = "interpolate"
    /\ UNCHANGED <<iDf, iDf0, nan_mask, iWarned>>
    /\ UNCHANGED nonIntVars

\* lines 117-119
IntInterpolate ==
    /\ iPc = "interpolate"
    /\ iDf' = InterpolateTime(iDf)
    /\ iPc' = "extrapolate"
    /\ UNCHANGED <<iDf0, nan_mask, iWarned>>
    /\ UNCHANGED nonIntVars

\* lines 121-125
IntExtrapolate ==
    /\ iPc = "extrapolate"
    /\ iDf' = ExtrapolateTime(iDf)
    /\ iPc' = "timestamp"
    /\ UNCHANGED <<iDf0, nan_mask, iWarned>>
    /\ UNCHANGED nonIntVars

\* lines 127-131
IntTimestamp ==
    /\ iPc = "timestamp"
    /\ iDf' = FillTimestamp(iDf, nan_mask)
    /\ iPc' = "capacity"
    /\ UNCHANGED <<iDf0, nan_mask, iWarned>>
    /\ UNCHANGED nonIntVars

\* lines 133-141
IntCapacity ==
    /\ iPc = "capacity"
    /\ iDf' = FillCapacity(iDf, nan_mask)
    /\ iPc' = "energy"
    /\ UNCHANGED <<iDf0, nan_mask, iWarned>>
    /\ UNCHANGED nonIntVars

\* lines 143-151
IntEnergy ==
    /\ iPc = "energy"
    /\ iDf' = FillEnergy(iDf, nan_mask)
    /\ iPc' = "done"
    /\ UNCHANGED <<iDf0, nan_mask, iWarned>>
    /\ UNCHANGED nonIntVars

IntNext ==
    \/ IntMask
    \/ IntWarn
    \/ IntNoWarn
    \/ IntInterpolate
    \/ IntExtrapolate
    \/ IntTimestamp
    \/ IntCapacity
    \/ IntEnergy

-----------------------------------------------------------------------------
(* dicts.py: multiplier_dict. The multipliers are kept in thousandths      *)
(* (1e-3 is 1, 1e-2 is 10, 1e-1 is 100), so a scaled current is counted in *)
(* thousandths of a mA.                                                    *)

multiplier_dict ==
    [r \in {-200000, -100000, -60000, -30000, -50000, -20000, -10000, -6000, -5000,
            -3000, -1000, -500, -100, 0, 10, 100, 200, 1000, 6000, 10000, 12000,
            50000, 60000, 100000} |->
        CASE r \in {-200000, -100000, -60000, -30000, -50000, -20000, -10000, -6000,
                    -5000, -3000, -1000} -> 10
          [] r \in {-500, -100} -> 1
          [] r = 0 -> 0
          [] r = 10 -> 1
          [] r \in {100, 200} -> 10
          [] r \in {1000, 6000, 10000, 12000, 50000, 60000, 100000} -> 100]

-----------------------------------------------------------------------------
(* Rows of the record table: one cell per column of rec_columns, plus T1,  *)
(* the temperature column the auxiliary join adds for channel 1 (NaN when  *)
(* the column is absent).                                                  *)

EmptyRow ==
    [Index |-> NaN, Cycle |-> NaN, Step |-> NaN, Status |-> NaN, Time |-> NaN,
     Voltage |-> NaN, Current |-> NaN, Charge_Capacity |-> NaN,
     Discharge_Capacity |-> NaN, Charge_Energy |-> NaN, Discharge_Energy |-> NaN,
     Timestamp |-> NaN, T1 |-> NaN]

\* the exceptions of the code, named by the statement that raises them
ValueError_NotNeware == "ValueError: does not appear to be a Neware file"
NotImplementedError  == "NotImplementedError: version is not yet supported"
EOFError             == "EOFError: File does not contain any valid records"
KeyError_Range       == "KeyError: multiplier_dict[Range]"
KeyError_Status      == "KeyError: state_dict[Status]"
KeyError_Mode        == "KeyError: Cycle_Mode not recognized"
ValueError_Columns   == "ValueError: columns passed, passed data had other columns"
ValueError_Pivot     == "ValueError: Index contains duplicate entries, cannot reshape"
ValueError_Cast      == "ValueError: Cannot convert non-finite values (NA or inf) to integer"
IndexError           == "IndexError: index out of bounds"
AttributeError       == "AttributeError: object has no attribute"
TypeError            == "TypeError: 'NoneType' object is not subscriptable"
UnicodeDecodeError   == "UnicodeDecodeError: 'ascii' codec can't decode byte"
StructError          == "struct.error: unpack requires a buffer of 8 bytes"

\* _bytes_to_list lines 218-219: Step is unpacked from bytes 10-13, and bytes 12
\* and 13 are the Status and Jump bytes unpacked again by the next line
Step29(raw) == raw.StepLow + 65536 * raw.Status + 16777216 * raw.Jump

\* _bytes_to_list lines 233-247: Time in 1/TimeUnit s, Voltage in V, Current in
\* thousandths of a mA, capacities and energies in 1/3600000 mAh / mWh
list29(raw) ==
    [Index |-> Known(raw.Index),
     Cycle |-> Known(raw.Cycle + 1),
     Step |-> Known(Step29(raw)),
     Status |-> Known(state_dict[raw.Status]),
     Time |-> Known((raw.Time * TimeUnit) \div 1000),
     Voltage |-> Known(raw.Voltage \div 10000),
     Current |-> Known(raw.Current * multiplier_dict[raw.Range]),
     Charge_Capacity |-> Known(raw.Charge_capacity * multiplier_dict[raw.Range]),
     Discharge_Capacity |-> Known(raw.Discharge_capacity * multiplier_dict[raw.Range]),
     Charge_Energy |-> Known(raw.Charge_energy * multiplier_dict[raw.Range]),
     Discharge_Energy |-> Known(raw.Discharge_energy * multiplier_dict[raw.Range]),
     Timestamp |-> Known(raw.Timestamp * TimeUnit),
     T1 |-> NaN]

\* mutant: looks the Range up only after the Status, so an unmapped Status wins
_bytes_to_list_StatusFirst(raw) ==
    IF raw.Index = 0 \/ raw.Status = 0
    THEN [err |-> "none", empty |-> TRUE, row |-> EmptyRow]
    ELSE IF raw.Status \notin DOMAIN state_dict
    THEN [err |-> KeyError_Status, empty |-> FALSE, row |-> EmptyRow]
    ELSE IF raw.Range \notin DOMAIN multiplier_dict
    THEN [err |-> KeyError_Range, empty |-> FALSE, row |-> EmptyRow]
    ELSE [err |-> "none", empty |-> FALSE, row |-> list29(raw)]

\* NewareNDA.py _bytes_to_list: a record with Index 0 or Status 0 is [], then
\* the Range is looked up, then the Status
_bytes_to_list(raw) ==
    IF raw.Index = 0 \/ raw.Status = 0
    THEN [err |-> "none", empty |-> TRUE, row |-> EmptyRow]
    ELSE IF raw.Range \notin DOMAIN multiplier_dict
    THEN [err |-> KeyError_Range, empty |-> FALSE, row |-> EmptyRow]
    ELSE IF raw.Status \notin DOMAIN state_dict
    THEN [err |-> KeyError_Status, empty |-> FALSE, row |-> EmptyRow]
    ELSE [err |-> "none", empty |-> FALSE, row |-> list29(raw)]

\* NewareNDA.py _bytes_to_list_BTS9: float fields are taken as they are, Cycle is 0
_bytes_to_list_BTS9(raw) ==
    IF raw.Status \notin DOMAIN state_dict
    THEN [err |-> KeyError_Status, empty |-> FALSE, row |-> EmptyRow]
    ELSE [err |-> "none", empty |-> FALSE,
          row |-> [Index |-> Known(raw.Index),
                   Cycle |-> Known(0),
                   Step |-> Known(raw.Step),
                   Status |-> Known(state_dict[raw.Status]),
                   Time |-> Known((raw.Time * TimeUnit) \div 1000000),
                   Voltage |-> Known(raw.Voltage),
                   Current |-> Known(raw.Current),
                   Charge_Capacity |-> Known(raw.Charge_capacity),
                   Discharge_Capacity |-> Known(raw.Discharge_capacity),
                   Charge_Energy |-> Known(raw.Charge_energy),
                   Discharge_Energy |-> Known(raw.Discharge_energy),
                   Timestamp |-> Known(raw.Timestamp * TimeUnit),
                   T1 |-> NaN]]

\* NewareNDAx.py _bytes_to_list_ndc: same units as _bytes_to_list
_bytes_to_list_ndc(raw) ==
    IF raw.Range \notin DOMAIN multiplier_dict
    THEN [err |-> KeyError_Range, empty |-> FALSE, row |-> EmptyRow]
    ELSE IF raw.Status \notin DOMAIN state_dict
    THEN [err |-> KeyError_Status, empty |-> FALSE, row |-> EmptyRow]
    ELSE LET multiplier == multiplier_dict[raw.Range] IN
         [err |-> "none", empty |-> FALSE,
          row |-> [Index |-> Known(raw.Index),
                   Cycle |-> Known(raw.Cycle + 1),
                   Step |-> Known(raw.Step),
                   Status |-> Known(state_dict[raw.Status]),
                   Time |-> Known((raw.Time * TimeUnit) \div 1000),
                   Voltage |-> Known(raw.Voltage \div 10000),
                   Current |-> Known(raw.Current * multiplier),
                   Charge_Capacity |-> Known(raw.Charge_capacity * multiplier),
                   Discharge_Capacity |-> Known(raw.Discharge_capacity * multiplier),
                   Charge_Energy |-> Known(raw.Charge_energy * multiplier),
                   Discharge_Energy |-> Known(raw.Discharge_energy * multiplier),
                   Timestamp |-> Known(raw.Timestamp * TimeUnit),
                   T1 |-> NaN]]

-----------------------------------------------------------------------------
(* pandas DataFrame operations used by read_nda and read_ndax; a table is  *)
(* a sequence of rows                                                      *)

Column(rows, c) == [i \in 1..Len(rows) |-> rows[i][c]]

RECURSIVE KeepRows(_, _, _)
KeepRows(rows, keep, i) ==
    IF i > Len(rows) THEN <<>>
    ELSE (IF keep[i] THEN <<rows[i]>> ELSE <<>>) \o KeepRows(rows, keep, i + 1)

\* pd.DataFrame(output, columns=rec_columns): a [] record becomes a row of NaN;
\* when every record is [] the data has no column at all and pandas raises
DataFrame(out) ==
    IF Len(out) > 0 /\ \A i \in 1..Len(out) : out[i].empty
    THEN [err |-> ValueError_Columns, rows |-> <<>>]
    ELSE [err |-> "none", rows |-> [i \in 1..Len(out) |-> out[i].row]]

\* mutant: keeps every row
drop_duplicates_None(rows) == rows

\* df.drop_duplicates(subset='Index'): the first row of each Index stays (NaN equals NaN)
drop_duplicates(rows) ==
    KeepRows(rows,
             [i \in 1..Len(rows) |-> \A j \in 1..(i-1) : rows[j].Index # rows[i].Index], 1)

\* Series.is_monotonic_increasing: non-decreasing, and FALSE when a NaN is present
is_monotonic_increasing(x) ==
    /\ \A i \in 1..Len(x) : ~x[i].nul
    /\ \A i \in 1..(Len(x) - 1) : x[i].v <= x[i+1].v

\* the order of sort_values: ascending, NaN last
IndexBefore(a, b) == ~a.nul /\ (b.nul \/ a.v < b.v)

RECURSIVE InsertSorted(_, _)
InsertSorted(sorted, r) ==
    IF sorted = <<>> THEN <<r>>
    ELSE IF IndexBefore(r.Index, Head(sorted).Index) THEN <<r>> \o sorted
    ELSE <<Head(sorted)>> \o InsertSorted(Tail(sorted), r)

RECURSIVE sort_values(_)
sort_values(rows) ==
    IF rows = <<>> THEN <<>>
    ELSE InsertSorted(sort_values(SubSeq(rows, 1, Len(rows) - 1)), rows[Len(rows)])

\* mutant: the difference of the last row is left as it is
_count_changes_LastCounts(series) ==
    IF Len(series) = 0 THEN [err |-> IndexError, val |-> <<>>]
    ELSE LET a0 == diff(series)
             a  == [a0 EXCEPT ![1] = Known(1)]
             changed == [i \in 1..Len(series) |-> ~a[i].nul /\ a[i].v # 0]
         IN  [err |-> "none", val |-> cumsum_bool(changed)]

\* NewareNDA.py _count_changes: err is IndexError on an empty Series (a.iloc[0])
_count_changes(series) ==
    IF Len(series) = 0 THEN [err |-> IndexError, val |-> <<>>]
    ELSE LET a0 == diff(series)
             a1 == [a0 EXCEPT ![1] = Known(1)]
             a  == [a1 EXCEPT ![Len(series)] = Known(0)]
             changed == [i \in 1..Len(series) |-> ~a[i].nul /\ a[i].v # 0]
         IN  [err |-> "none", val |-> cumsum_bool(changed)]

\* df.astype(dtype_dict): the integer columns cannot hold NaN
astype_ok(rows) ==
    \A i \in 1..Len(rows) : ~rows[i].Index.nul /\ ~rows[i].Cycle.nul /\ ~rows[i].Step.nul

\* _generate_cycle_number on a Status column that may hold NaN: an unknown
\* explicit mode raises before any row is read; a NaN Status has no split()
generate_cycle_column(status, mode) ==
    IF lower(mode) # <<"a","u","t","o">> /\ ~ModeKeys(mode).ok
    THEN [err |-> KeyError_Mode, val |-> <<>>]
    ELSE IF \E i \in 1..Len(status) : status[i].nul
    THEN [err |-> AttributeError, val |-> <<>>]
    ELSE LET r == _generate_cycle_number([i \in 1..Len(status) |-> status[i].v], mode) IN
         [err |-> IF r.err = "KeyError" THEN KeyError_Mode
                  ELSE IF r.err = "IndexError" THEN IndexError ELSE "none",
          val |-> r.val]

-----------------------------------------------------------------------------
(* read_nda and read_ndax. The bytes of the file are the environment: each *)
(* header byte and each frame is drawn when the code reads it.             *)

Files ==
    { [kind |-> "nda", split |-> FALSE],
      [kind |-> "ndax", split |-> FALSE],
      [kind |-> "ndax", split |-> TRUE] }

DecodeModes == { <<"c","h","g">>, <<"a","u","t","o">>, <<"c","h","a","r","g","e">> }

\* version bytes drawn for a .nda file: the two supported ones and another one
NdaVersions == {29, 130, 22}

\* version bytes drawn for a chunk stream: those read_ndc handles, 14, which
\* only the split-role readers know, and one that no reader names
NdcVersions == {2, 5, 11, 14, 3}

\* version bytes drawn for a split-role stream: its readers only tell 14 from
\* the rest
SplitVersions == {14, 3}

NoStream == [role |-> "none", magic |-> TRUE, version |-> 0, chan |-> 0]

NoRaw == [kind |-> "none"]

NoTable == [none |-> TRUE, rows |-> <<>>]

Table(rows) == [none |-> FALSE, rows |-> rows]

NoParts == [data |-> <<>>, runInfo |-> <<>>, step |-> <<>>, aux_df |-> <<>>]

\* main data frames of a version 29 file, as the fields struct.unpack yields
RawFrames29 ==
    [kind : {"data"}, Index : 0..MaxIndex, Cycle : {0}, StepLow : {1},
     Status : {0, 1, 2, 6}, Jump : {0}, Range : {1000, 7}, Time : {1000},
     Voltage : {30000},
     Current : {500}, Charge_capacity : {3600}, Discharge_capacity : {0},
     Charge_energy : {7200}, Discharge_energy : {0}, Timestamp : {100}]

\* main data frames of a version 130 file
RawFrames130 ==
    [kind : {"data"}, Index : 1..MaxIndex, Step : {1, 2}, Status : {1, 2, 6},
     Time : {1000000}, Voltage : {3}, Current : {50}, Charge_capacity : {3600},
     Discharge_capacity : {0}, Charge_energy : {7200}, Discharge_energy : {0},
     Timestamp : {100}]

DecInit ==
    /\ file \in Files
    /\ software_cycle_number = FALSE
    /\ dMode = <<>>
    /\ dPc = "open"
    /\ stream = NoStream
    /\ nRead = 0
    /\ nAux = {}
    /\ lastRaw = NoRaw
    /\ output = <<>>
    /\ aux = <<>>
    /\ parts = NoParts
    /\ dDf = NoTable
    /\ dStep0 = <<>>
    /\ dWarned = FALSE
    /\ dErr = "none"

\* neither entry point is running
DecIdle ==
    /\ file = [kind |-> "none", split |-> FALSE]
    /\ software_cycle_number = FALSE
    /\ dMode = <<>>
    /\ dPc = "idle"
    /\ stream = NoStream
    /\ nRead = 0
    /\ nAux = {}
    /\ lastRaw = NoRaw
    /\ output = <<>>
    /\ aux = <<>>
    /\ parts = NoParts
    /\ dDf = NoTable
    /\ dStep0 = <<>>
    /\ dWarned = FALSE
    /\ dErr = "none"

\* an exception leaves the entry point: no table is returned
Raise(e) ==
    /\ dErr' = e
    /\ dPc' = "failed"

\* NewareNDA.py lines 59-60: the first six bytes are not NEWARE
NdaBadMagic ==
    /\ dPc = "open"
    /\ file.kind = "nda"
    /\ \E v \in NdaVersions : stream' = [role |-> "nda", magic |-> FALSE, version |-> v, chan |-> 0]
    /\ Raise(ValueError_NotNeware)
    /\ UNCHANGED <<file, software_cycle_number, dMode, nRead, nAux, lastRaw, output, aux,
                   parts, dDf, dStep0, dWarned>>
    /\ UNCHANGED nonDecVars

\* lines 59-64: the magic matches and the version byte is read
NdaHeader ==
    /\ dPc = "open"
    /\ file.kind = "nda"
    /\ \E v \in NdaVersions : stream' = [role |-> "nda", magic |-> TRUE, version |-> v, chan |-> 0]
    /\ dPc' = "version"
    /\ UNCHANGED <<file, software_cycle_number, dMode, nRead, nAux, lastRaw, output, aux,
                   parts, dDf, dStep0, dWarned, dErr>>
    /\ UNCHANGED nonDecVars

\* lines 79-80
NdaVersion29 ==
    /\ dPc = "version"
    /\ stream.version = 29
    /\ dPc' = "scan29"
    /\ UNCHANGED <<file, software_cycle_number, dMode, stream, nRead, nAux, lastRaw, output,
                   aux, parts, dDf, dStep0, dWarned, dErr>>
    /\ UNCHANGED nonDecVars

\* lines 81-82
NdaVersion130 ==
    /\ dPc = "version"
    /\ stream.version = 130
    /\ dPc' = "frames130"
    /\ UNCHANGED <<file, software_cycle_number, dMode, stream, nRead, nAux, lastRaw, output,
                   aux, parts, dDf, dStep0, dWarned, dErr>>
    /\ UNCHANGED nonDecVars

\* lines 83-85
NdaUnsupported ==
    /\ dPc = "version"
    /\ stream.version \notin {29, 130}
    /\ Raise(NotImplementedError)
    /\ UNCHANGED <<file, software_cycle_number, dMode, stream, nRead, nAux, lastRaw, output,
                   aux, parts, dDf, dStep0, dWarned>>
    /\ UNCHANGED nonDecVars

\* _read_nda_29 lines 133-135: the marker does not occur
Scan29EOF ==
    /\ dPc = "scan29"
    /\ Raise(EOFError)
    /\ UNCHANGED <<file, software_cycle_number, dMode, stream, nRead, nAux, lastRaw, output,
                   aux, parts, dDf, dStep0, dWarned>>
    /\ UNCHANGED nonDecVars

\* lines 136-141: the scan leaves its loop and the frames are read from header + 4
Scan29Found ==
    /\ dPc = "scan29"
    /\ dPc' = "frames29"
    /\ UNCHANGED <<file, software_cycle_number, dMode, stream, nRead, nAux, lastRaw, output,
                   aux, parts, dDf, dStep0, dWarned, dErr>>
    /\ UNCHANGED nonDecVars

\* lines 136-140: every candidate is rejected and the search starts over from
\* the not-found position; the loop does not end
Scan29Diverges ==
    /\ dPc = "scan29"
    /\ dPc' = "scanning"
    /\ UNCHANGED <<file, software_cycle_number, dMode, stream, nRead, nAux, lastRaw, output,
                   aux, parts, dDf, dStep0, dWarned, dErr>>
    /\ UNCHANGED nonDecVars

\* the record decoder of the version being read
NdaDecode(raw) ==
    IF stream.version = 29 THEN _bytes_to_list(raw) ELSE _bytes_to_list_BTS9(raw)

NdaFramePc == dPc \in {"frames29", "frames130"}

\* the records one decode may keep
FrameBudget == IF file.split THEN MaxSplitRecs ELSE MaxFrames

NdaRawFrames == IF stream.version = 29 THEN RawFrames29 ELSE RawFrames130

\* _read_nda_29 lines 146-153, _read_nda_130 lines 175-181: a data record
NdaDataFrame ==
    /\ NdaFramePc
    /\ nRead < FrameBudget
    /\ \E raw \in NdaRawFrames :
          LET r == NdaDecode(raw) IN
          IF r.err = "none"
          THEN /\ output' = Append(output, [empty |-> r.empty, row |-> r.row])
               /\ UNCHANGED <<dPc, dErr>>
          ELSE /\ Raise(r.err)
               /\ UNCHANGED output
    /\ nRead' = nRead + 1
    /\ UNCHANGED <<file, software_cycle_number, dMode, stream, nAux, lastRaw, aux, parts,
                   dDf, dStep0, dWarned>>
    /\ UNCHANGED nonDecVars

\* _read_nda_130 line 172: the identifier is the head of the first frame, so
\* the first complete frame of a version 130 file is a data record
FirstFrameRead == stream.version = 130 => Len(output) > 0

\* lines 155-158, 183-185: an auxiliary record, [Index, Aux, T/10, V/10000]
NdaAuxFrame ==
    /\ NdaFramePc
    /\ FirstFrameRead
    /\ nRead < FrameBudget
    /\ \E i \in 1..MaxIndex : aux' = Append(aux, [Index |-> i, Aux |-> 1, T |-> 25])
    /\ nRead' = nRead + 1
    /\ UNCHANGED <<file, software_cycle_number, dMode, dPc, stream, nAux, lastRaw, output,
                   parts, dDf, dStep0, dWarned, dErr>>
    /\ UNCHANGED nonDecVars

\* lines 146-158, 175-185: a frame of neither kind, or a short last read
NdaOtherFrame ==
    /\ NdaFramePc
    /\ FirstFrameRead
    /\ UNCHANGED decVars
    /\ UNCHANGED nonDecVars

\* lines 146 / 175: mm.tell() has reached mm_size
NdaFramesEnd ==
    /\ NdaFramePc
    /\ dPc' = "assemble"
    /\ UNCHANGED <<file, software_cycle_number, dMode, stream, nRead, nAux, lastRaw, output,
                   aux, parts, dDf, dStep0, dWarned, dErr>>
    /\ UNCHANGED nonDecVars

\* _read_nda_130 lines 187-202: the footer is found and its remarks are not
\* ASCII, or fewer than 8 bytes follow it; neither exception is caught
Nda130FooterFails ==
    /\ dPc = "frames130"
    /\ \E e \in {UnicodeDecodeError, StructError} : Raise(e)
    /\ UNCHANGED <<file, software_cycle_number, dMode, stream, nRead, nAux, lastRaw, output,
                   aux, parts, dDf, dStep0, dWarned>>
    /\ UNCHANGED nonDecVars

\* read_nda lines 87-94 on the rows of a DataFrame
AssembleRows(rows) ==
    LET deduped == drop_duplicates(rows) IN
    IF is_monotonic_increasing(Column(deduped, "Index")) THEN deduped
    ELSE sort_values(deduped)

\* lines 87-94: DataFrame, drop_duplicates, sort_values, reset_index
NdaAssemble ==
    /\ dPc = "assemble"
    /\ LET built == DataFrame(output) IN
       IF built.err # "none"
       THEN /\ Raise(built.err)
            /\ UNCHANGED dDf
       ELSE /\ dDf' = Table(AssembleRows(built.rows))
            /\ dPc' = "join"
            /\ UNCHANGED dErr
    /\ UNCHANGED <<file, software_cycle_number, dMode, stream, nRead, nAux, lastRaw, output,
                   aux, parts, dStep0, dWarned>>
    /\ UNCHANGED nonDecVars

\* lines 96-102: aux_columns names three columns and every auxiliary record has
\* four values, so the DataFrame of a non-empty aux list cannot be built
NdaJoinAux ==
    /\ dPc = "join"
    /\ IF Len(aux) > 0
       THEN Raise(ValueError_Columns)
       ELSE /\ dPc' = "steps"
            /\ UNCHANGED dErr
    /\ UNCHANGED <<file, software_cycle_number, dMode, stream, nRead, nAux, lastRaw, output,
                   aux, parts, dDf, dStep0, dWarned>>
    /\ UNCHANGED nonDecVars

SetColumn(rows, c, cells) == [i \in 1..Len(rows) |-> [rows[i] EXCEPT ![c] = cells[i]]]

KnownCells(ints) == [i \in 1..Len(ints) |-> Known(ints[i])]

\* line 105
NdaCountSteps ==
    /\ dPc = "steps"
    /\ LET r == _count_changes(Column(dDf.rows, "Step")) IN
       IF r.err # "none"
       THEN /\ Raise(r.err)
            /\ UNCHANGED <<dDf, dStep0>>
       ELSE /\ dDf' = Table(SetColumn(dDf.rows, "Step", KnownCells(r.val)))
            /\ dStep0' = Column(dDf.rows, "Step")
            /\ dPc' = "cycle"
            /\ UNCHANGED dErr
    /\ UNCHANGED <<file, software_cycle_number, dMode, stream, nRead, nAux, lastRaw, output,
                   aux, parts, dWarned>>
    /\ UNCHANGED nonDecVars

\* mutant: an unknown mode is taken for the default 'chg'
CycleResult_DefaultMode(table, mode) ==
    IF table.none THEN [err |-> TypeError, val |-> <<>>]
    ELSE generate_cycle_column(Column(table.rows, "Status"),
            IF lower(mode) # <<"a","u","t","o">> /\ ~ModeKeys(mode).ok
            THEN <<"c","h","g">> ELSE mode)

\* what _generate_cycle_number(df, cycle_mode) yields on the table, None included
CycleResult(table, mode) ==
    IF lower(mode) # <<"a","u","t","o">> /\ ~ModeKeys(mode).ok
    THEN [err |-> KeyError_Mode, val |-> <<>>]
    ELSE IF table.none THEN [err |-> TypeError, val |-> <<>>]
    ELSE generate_cycle_column(Column(table.rows, "Status"), mode)

\* df.astype(dtype_dict) on the table, None included
astype(table) ==
    IF table.none THEN AttributeError
    ELSE IF ~astype_ok(table.rows) THEN ValueError_Cast
    ELSE "none"

\* NewareNDA.py lines 106 and 108-110 / NewareNDAx.py lines 99 and 102 with
\* software_cycle_number false: cycle_mode is not read
ReturnAsRead ==
    /\ dPc = "cycle"
    /\ software_cycle_number' = FALSE
    /\ dMode' \in DecodeModes
    /\ IF astype(dDf) # "none" THEN Raise(astype(dDf))
       ELSE /\ dPc' = "returned"
            /\ UNCHANGED dErr
    /\ UNCHANGED <<file, stream, nRead, nAux, lastRaw, output, aux, parts, dDf, dStep0,
                   dWarned>>
    /\ UNCHANGED nonDecVars

\* NewareNDA.py lines 106-110 / NewareNDAx.py lines 99-102 with
\* software_cycle_number true
ReturnRegenerated ==
    /\ dPc = "cycle"
    /\ software_cycle_number' = TRUE
    /\ \E mode \in DecodeModes :
          LET r == CycleResult(dDf, mode)
              regenerated == Table(SetColumn(dDf.rows, "Cycle", KnownCells(r.val)))
          IN
          /\ dMode' = mode
          /\ IF r.err # "none"
             THEN /\ Raise(r.err)
                  /\ UNCHANGED dDf
             ELSE IF astype(regenerated) # "none"
             THEN /\ Raise(astype(regenerated))
                  /\ dDf' = regenerated
             ELSE /\ dDf' = regenerated
                  /\ dPc' = "returned"
                  /\ UNCHANGED dErr
    /\ UNCHANGED <<file, stream, nRead, nAux, lastRaw, output, aux, parts, dStep0,
                   dWarned>>
    /\ UNCHANGED nonDecVars

-----------------------------------------------------------------------------
(* read_ndax: the merged stream and the auxiliary streams go through       *)
(* read_ndc; the three split-role streams have their own readers.          *)

\* the channel numbers of the auxiliary streams an archive can hold (data_1.ndc)
AuxNames == {1}

\* main records of a chunk stream of version 2 or 5
RawFramesNdc ==
    [kind : {"data"}, Index : 1..MaxIndex, Cycle : {0}, Step : {1},
     Status : {1, 2, 6}, Range : {1000, 7}, Time : {1000}, Voltage : {30000},
     Current : {500}, Charge_capacity : {3600}, Discharge_capacity : {0},
     Charge_energy : {7200}, Discharge_energy : {0}, Timestamp : {100}]

\* the (voltage, current) pairs of a split data.ndc page: 3 V in the unit of
\* the version, or the zero voltage of padding
RawSplitData(version) ==
    [Voltage : {0, IF version = 14 THEN 3 ELSE 30000}, Current : {5}]

\* the records of a data_runInfo.ndc page
RawRunInfo ==
    { [Index |-> i, Step |-> s, Time |-> 1000 * i, Charge_Capacity |-> 1,
       Discharge_Capacity |-> 0, Charge_Energy |-> 2, Discharge_Energy |-> 0,
       Timestamp |-> 100 + i] : i \in 0..MaxIndex, s \in {1} }

\* the records of a data_step.ndc page
RawStep == [Cycle : {0}, Step_Index : {0, 1}, Status : {1, 2, 6}]

\* lines 64-71: both split-role names are in the archive; data.ndc is opened
NdaxOpenSplit ==
    /\ dPc = "open"
    /\ file.kind = "ndax"
    /\ file.split
    /\ \E v \in SplitVersions :
          stream' = [role |-> "data.ndc", magic |-> TRUE, version |-> v, chan |-> 0]
    /\ dPc' = "split_data"
    /\ UNCHANGED <<file, software_cycle_number, dMode, nRead, nAux, lastRaw, output, aux,
                   parts, dDf, dStep0, dWarned, dErr>>
    /\ UNCHANGED nonDecVars

\* _read_data_ndc lines 171-176: one (voltage, current) pair; zero voltage is padding
SplitDataRecord ==
    /\ dPc = "split_data"
    /\ nRead < FrameBudget
    /\ \E raw \in RawSplitData(stream.version) :
          IF raw.Voltage # 0
          THEN /\ parts' = [parts EXCEPT !.data = Append(@, raw)]
               /\ nRead' = nRead + 1
          ELSE UNCHANGED <<parts, nRead>>
    /\ UNCHANGED <<file, software_cycle_number, dMode, dPc, stream, nAux, lastRaw, output,
                   aux, dDf, dStep0, dWarned, dErr>>
    /\ UNCHANGED nonDecVars

\* _read_data_ndc lines 160-163 and 179-181: the multipliers of the version,
\* times 10000 so that they are whole
DataMultipliers(version) ==
    IF version = 14 THEN [Voltage |-> 10000, Current |-> 10000000]
    ELSE [Voltage |-> 1, Current |-> 10000]

ScaleData(rec, version) ==
    [i \in 1..Len(rec) |->
        [Index |-> i,
         Voltage |-> (rec[i].Voltage * DataMultipliers(version).Voltage) \div 10000,
         Current |-> (rec[i].Current * DataMultipliers(version).Current) \div 10000]]

\* _read_data_ndc lines 178-181, then data_runInfo.ndc is opened (line 71)
SplitDataEnd ==
    /\ dPc = "split_data"
    /\ parts' = [parts EXCEPT !.data = ScaleData(@, stream.version)]
    /\ \E v \in SplitVersions :
          stream' = [role |-> "data_runInfo.ndc", magic |-> TRUE, version |-> v, chan |-> 0]
    /\ dPc' = "split_runInfo"
    /\ UNCHANGED <<file, software_cycle_number, dMode, nRead, nAux, lastRaw, output, aux, dDf,
                   dStep0, dWarned, dErr>>
    /\ UNCHANGED nonDecVars

\* _read_data_runInfo_ndc lines 205-216: one record; Index 0 is padding
SplitRunInfoRecord ==
    /\ dPc = "split_runInfo"
    /\ nRead < FrameBudget
    /\ \E raw \in RawRunInfo :
          IF raw.Index # 0
          THEN /\ parts' = [parts EXCEPT !.runInfo = Append(@, raw)]
               /\ nRead' = nRead + 1
          ELSE UNCHANGED <<parts, nRead>>
    /\ UNCHANGED <<file, software_cycle_number, dMode, dPc, stream, nAux, lastRaw, output,
                   aux, dDf, dStep0, dWarned, dErr>>
    /\ UNCHANGED nonDecVars

\* lines 192-199: the capacity and energy multiplier, in units of 1/3600
RunInfoMultiplier(version) == IF version >= 14 THEN 3600000 ELSE 1

\* lines 219-226: the DataFrame of the records, scaled, with its Step recounted
RunInfoFrame(rec, version) ==
    LET m == RunInfoMultiplier(version)
        steps == _count_changes([i \in 1..Len(rec) |-> Known(rec[i].Step)])
    IN  [err |-> steps.err,
         rows |-> IF steps.err # "none" THEN <<>>
                  ELSE [i \in 1..Len(rec) |->
                          [Index |-> rec[i].Index,
                           Step |-> steps.val[i],
                           Time |-> Known((rec[i].Time * TimeUnit) \div 1000),
                           Charge_Capacity |-> Known(rec[i].Charge_Capacity * m * TimeUnit),
                           Discharge_Capacity |-> Known(rec[i].Discharge_Capacity * m * TimeUnit),
                           Charge_Energy |-> Known(rec[i].Charge_Energy * m * TimeUnit),
                           Discharge_Energy |-> Known(rec[i].Discharge_Energy * m * TimeUnit),
                           Timestamp |-> Known(rec[i].Timestamp * TimeUnit)]]]

\* _read_data_runInfo_ndc lines 218-228, then data_step.ndc is opened (line 72)
SplitRunInfoEnd ==
    /\ dPc = "split_runInfo"
    /\ LET built == RunInfoFrame(parts.runInfo, stream.version) IN
       IF built.err # "none"
       THEN /\ Raise(built.err)
            /\ UNCHANGED <<parts, stream>>
       ELSE /\ parts' = [parts EXCEPT !.runInfo = built.rows]
            /\ \E v \in SplitVersions :
                  stream' = [role |-> "data_step.ndc", magic |-> TRUE, version |-> v, chan |-> 0]
            /\ dPc' = "split_step"
            /\ UNCHANGED dErr
    /\ UNCHANGED <<file, software_cycle_number, dMode, nRead, nAux, lastRaw, output, aux, dDf,
                   dStep0, dWarned>>
    /\ UNCHANGED nonDecVars

\* _read_data_step_ndc lines 241-247: one record; Step_Index 0 is padding
SplitStepRecord ==
    /\ dPc = "split_step"
    /\ nRead < FrameBudget
    /\ \E raw \in RawStep :
          IF raw.Step_Index = 0
          THEN UNCHANGED <<parts, nRead, dPc, dErr>>
          ELSE IF raw.Status \notin DOMAIN state_dict
          THEN /\ Raise(KeyError_Status)
               /\ UNCHANGED <<parts, nRead>>
          ELSE /\ parts' = [parts EXCEPT !.step =
                              Append(@, [Cycle |-> raw.Cycle + 1,
                                         Status |-> state_dict[raw.Status]])]
               /\ nRead' = nRead + 1
               /\ UNCHANGED <<dPc, dErr>>
    /\ UNCHANGED <<file, software_cycle_number, dMode, stream, nAux, lastRaw, output, aux,
                   dDf, dStep0, dWarned>>
    /\ UNCHANGED nonDecVars

\* _read_data_step_ndc lines 249-253: Step is the position of the record
SplitStepEnd ==
    /\ dPc = "split_step"
    /\ stream' = NoStream
    /\ dPc' = "merge"
    /\ UNCHANGED <<file, software_cycle_number, dMode, nRead, nAux, lastRaw, output,
                   aux, parts, dDf, dStep0, dWarned, dErr>>
    /\ UNCHANGED nonDecVars

RECURSIVE Matches(_, _, _)
Matches(runInfo, index, k) ==
    IF k > Len(runInfo) THEN <<>>
    ELSE (IF runInfo[k].Index = index THEN <<runInfo[k]>> ELSE <<>>)
         \o Matches(runInfo, index, k + 1)

\* one data row joined with one run-info row
Joined(d, r) ==
    [EmptyRow EXCEPT !.Index = Known(d.Index), !.Voltage = Known(d.Voltage),
                     !.Current = Known(d.Current), !.Step = Known(r.Step),
                     !.Time = r.Time, !.Charge_Capacity = r.Charge_Capacity,
                     !.Discharge_Capacity = r.Discharge_Capacity,
                     !.Charge_Energy = r.Charge_Energy,
                     !.Discharge_Energy = r.Discharge_Energy, !.Timestamp = r.Timestamp]

\* a data row no run-info row matches
Unmatched(d) ==
    [EmptyRow EXCEPT !.Index = Known(d.Index), !.Voltage = Known(d.Voltage),
                     !.Current = Known(d.Current)]

\* line 74: data_df.merge(runInfo_df, how='left', on='Index')
RECURSIVE merge_runInfo(_, _, _)
merge_runInfo(data, runInfo, i) ==
    IF i > Len(data) THEN <<>>
    ELSE LET m == Matches(runInfo, data[i].Index, 1) IN
         (IF Len(m) = 0 THEN <<Unmatched(data[i])>>
          ELSE [k \in 1..Len(m) |-> Joined(data[i], m[k])])
         \o merge_runInfo(data, runInfo, i + 1)

\* lines 76-77: merge(step_df, how='left', on='Step'); step_df.Step is 1, 2, ...
merge_step(rows, step) ==
    [i \in 1..Len(rows) |->
        IF ~rows[i].Step.nul /\ rows[i].Step.v \in 1..Len(step)
        THEN [rows[i] EXCEPT !.Cycle = Known(step[rows[i].Step.v].Cycle),
                             !.Status = Known(step[rows[i].Step.v].Status)]
        ELSE rows[i]]

\* lines 74-77
SplitMerge ==
    /\ dPc = "merge"
    /\ LET merged == merge_runInfo(parts.data, parts.runInfo, 1)
           filled == SetColumn(merged, "Step", ffill(Column(merged, "Step")))
       IN  dDf' = Table(merge_step(filled, parts.step))
    /\ dPc' = "interpolate"
    /\ UNCHANGED <<file, software_cycle_number, dMode, stream, nRead, nAux, lastRaw, output,
                   aux, parts, dStep0, dWarned, dErr>>
    /\ UNCHANGED nonDecVars

Plain(cells) == [i \in 1..Len(cells) |-> IF cells[i].nul THEN 0 ELSE cells[i].v]

\* the columns _data_interpolation works on
Columns(rows) ==
    [Step      |-> Plain(Column(rows, "Step")),
     Time      |-> Column(rows, "Time"),
     Timestamp |-> Column(rows, "Timestamp"),
     Voltage   |-> Plain(Column(rows, "Voltage")),
     Current   |-> Plain(Column(rows, "Current")),
     Charge_Capacity    |-> Column(rows, "Charge_Capacity"),
     Discharge_Capacity |-> Column(rows, "Discharge_Capacity"),
     Charge_Energy      |-> Column(rows, "Charge_Energy"),
     Discharge_Energy   |-> Column(rows, "Discharge_Energy")]

\* the rows with the columns _data_interpolation has assigned
WithColumns(rows, c) ==
    [i \in 1..Len(rows) |->
        [rows[i] EXCEPT !.Time = c.Time[i], !.Timestamp = c.Timestamp[i],
                        !.Charge_Capacity = c.Charge_Capacity[i],
                        !.Discharge_Capacity = c.Discharge_Capacity[i],
                        !.Charge_Energy = c.Charge_Energy[i],
                        !.Discharge_Energy = c.Discharge_Energy[i]]]

\* line 80
SplitInterpolate ==
    /\ dPc = "interpolate"
    /\ LET r == _data_interpolation(Columns(dDf.rows)) IN
       /\ dDf' = Table(WithColumns(dDf.rows, r.df))
       /\ dWarned' = r.warned
    /\ dPc' = "aux_streams"
    /\ UNCHANGED <<file, software_cycle_number, dMode, stream, nRead, nAux, lastRaw, output, aux,
                   parts, dStep0, dErr>>
    /\ UNCHANGED nonDecVars

\* line 83: the split-role names are not both in the archive; read_ndc opens data.ndc
NdaxOpenMerged ==
    /\ dPc = "open"
    /\ file.kind = "ndax"
    /\ ~file.split
    /\ \E v \in NdcVersions :
          stream' = [role |-> "data.ndc", magic |-> TRUE, version |-> v, chan |-> 0]
    /\ dPc' = "ndc_version"
    /\ UNCHANGED <<file, software_cycle_number, dMode, nRead, nAux, lastRaw, output, aux,
                   parts, dDf, dStep0, dWarned, dErr>>
    /\ UNCHANGED nonDecVars

\* read_ndc lines 273-276
ReadNdc25 ==
    /\ dPc = "ndc_version"
    /\ stream.version \in {2, 5}
    /\ dPc' = "ndc_frames"
    /\ UNCHANGED <<file, software_cycle_number, dMode, stream, nRead, nAux, lastRaw, output,
                   aux, parts, dDf, dStep0, dWarned, dErr>>
    /\ UNCHANGED nonDecVars

\* read_ndc lines 277-278
ReadNdc11 ==
    /\ dPc = "ndc_version"
    /\ stream.version = 11
    /\ dPc' = "ndc11_frames"
    /\ UNCHANGED <<file, software_cycle_number, dMode, stream, nRead, nAux, lastRaw, output,
                   aux, parts, dDf, dStep0, dWarned, dErr>>
    /\ UNCHANGED nonDecVars

\* mutant: a stream of another version is passed over
ReadNdcUnsupported_Skips ==
    /\ dPc = "ndc_version"
    /\ stream.version \notin {2, 5, 11}
    /\ dPc' = "aux_streams"
    /\ UNCHANGED <<file, software_cycle_number, dMode, stream, nRead, nAux, lastRaw, output,
                   aux, parts, dDf, dStep0, dWarned, dErr>>
    /\ UNCHANGED nonDecVars

\* read_ndc lines 279-280
ReadNdcUnsupported ==
    /\ dPc = "ndc_version"
    /\ stream.version \notin {2, 5, 11}
    /\ Raise(NotImplementedError)
    /\ UNCHANGED <<file, software_cycle_number, dMode, stream, nRead, nAux, lastRaw, output,
                   aux, parts, dDf, dStep0, dWarned>>
    /\ UNCHANGED nonDecVars

\* _read_ndc_2 lines 298-299, _read_ndc_5 lines 338-339: a main record. The
\* table of an auxiliary stream is dropped on return (read_ndax line 91), so
\* only the rows of data.ndc are kept here
NdcDataFrame ==
    /\ dPc = "ndc_frames"
    /\ nRead < FrameBudget
    /\ \E raw \in RawFramesNdc :
          LET r == _bytes_to_list_ndc(raw) IN
          IF r.err = "none"
          THEN /\ output' = IF stream.role = "data.ndc"
                            THEN Append(output, [empty |-> r.empty, row |-> r.row])
                            ELSE output
               /\ UNCHANGED <<dPc, dErr>>
          ELSE /\ Raise(r.err)
               /\ UNCHANGED output
    /\ nRead' = nRead + 1
    /\ UNCHANGED <<file, software_cycle_number, dMode, stream, nAux, lastRaw, aux, parts,
                   dDf, dStep0, dWarned>>
    /\ UNCHANGED nonDecVars

\* _read_ndc_2 lines 300-303, _read_ndc_5 lines 340-343: an auxiliary record,
\* [Index, Aux, V/10000, T/10]. The samples of data.ndc are dropped on return
\* (read_ndax line 83), so only those of an auxiliary stream are kept here
NdcAuxFrame ==
    /\ dPc = "ndc_frames"
    /\ nRead < FrameBudget
    /\ \E i \in 1..MaxIndex :
          aux' = IF stream.role = "aux"
                 THEN Append(aux, [Index |-> i, Aux |-> 0, T |-> 25])
                 ELSE aux
    /\ nRead' = nRead + 1
    /\ UNCHANGED <<file, software_cycle_number, dMode, dPc, stream, nAux, lastRaw, output,
                   parts, dDf, dStep0, dWarned, dErr>>
    /\ UNCHANGED nonDecVars

\* _read_ndc_2 lines 304-305 (logged), _read_ndc_5 line 337: a record of another type
NdcOtherFrame ==
    /\ dPc = "ndc_frames"
    /\ UNCHANGED decVars
    /\ UNCHANGED nonDecVars

\* read_ndax line 92: the stream's samples take the channel number of its name
Tagged(samples, channel) ==
    [i \in 1..Len(samples) |-> [samples[i] EXCEPT !.Aux = channel]]

\* what read_ndax does with the pair read_ndc returns: line 83 keeps the table
\* of data.ndc, lines 91-93 keep the samples of an auxiliary stream
Returned(table, samples) ==
    IF stream.role = "data.ndc"
    THEN /\ dDf' = table
         /\ UNCHANGED <<parts, nAux>>
    ELSE /\ parts' = [parts EXCEPT !.aux_df = @ \o Tagged(samples, stream.chan)]
         /\ nAux' = nAux \cup {stream.chan}
         /\ UNCHANGED dDf

\* _read_ndc_2 lines 309-320 and _read_ndc_5 lines 346-356: the table is built
\* from the records in file order; version 2 keeps the samples only when the
\* identifier captured at byte 517 starts an auxiliary record
NdcFramesEnd ==
    /\ dPc = "ndc_frames"
    /\ \E identifier \in {"55", "65"} :
          Returned(Table([i \in 1..Len(output) |-> output[i].row]),
                   IF stream.version = 2 /\ identifier # "65" THEN <<>> ELSE aux)
    /\ stream' = NoStream
    /\ dPc' = "aux_streams"
    /\ UNCHANGED <<file, software_cycle_number, dMode, nRead, lastRaw, output, aux,
                   dStep0, dWarned, dErr>>
    /\ UNCHANGED nonDecVars

\* _read_ndc_11 lines 369-372: one (marker, voltage, temperature) sub-record;
\* only marker 0x65 is kept
Ndc11Frame ==
    /\ dPc = "ndc11_frames"
    /\ nRead < FrameBudget
    /\ \E marker \in {"65", "00"} :
          IF marker = "65"
          THEN /\ aux' = IF stream.role = "aux"
                         THEN Append(aux, [Index |-> 0, Aux |-> 0, T |-> 25])
                         ELSE aux
               /\ nRead' = nRead + 1
          ELSE UNCHANGED <<aux, nRead>>
    /\ UNCHANGED <<file, software_cycle_number, dMode, dPc, stream, nAux, lastRaw, output,
                   parts, dDf, dStep0, dWarned, dErr>>
    /\ UNCHANGED nonDecVars

\* _read_ndc_11 lines 374-377: Index is the position of the sample; no table
Ndc11End ==
    /\ dPc = "ndc11_frames"
    /\ Returned(NoTable, [i \in 1..Len(aux) |-> [aux[i] EXCEPT !.Index = i]])
    /\ stream' = NoStream
    /\ dPc' = "aux_streams"
    /\ UNCHANGED <<file, software_cycle_number, dMode, nRead, lastRaw, output, aux,
                   dStep0, dWarned, dErr>>
    /\ UNCHANGED nonDecVars

\* read_ndax lines 87-91: the next archive name with a numeric suffix
AuxOpen ==
    /\ dPc = "aux_streams"
    /\ \E c \in AuxNames \ nAux, v \in NdcVersions :
          stream' = [role |-> "aux", magic |-> TRUE, version |-> v, chan |-> c]
    /\ output' = <<>>
    /\ aux' = <<>>
    /\ dPc' = "ndc_version"
    /\ UNCHANGED <<file, software_cycle_number, dMode, nRead, nAux, lastRaw, parts, dDf,
                   dStep0, dWarned, dErr>>
    /\ UNCHANGED nonDecVars

\* line 87: no archive name is left
AuxDone ==
    /\ dPc = "aux_streams"
    /\ dPc' = "pivot"
    /\ UNCHANGED <<file, software_cycle_number, dMode, stream, nRead, nAux, lastRaw, output,
                   aux, parts, dDf, dStep0, dWarned, dErr>>
    /\ UNCHANGED nonDecVars

\* aux_df.pivot(index='Index', columns='Aux') cannot reshape two samples of one
\* Index and channel
PivotFails(aux_df) ==
    \E i, j \in 1..Len(aux_df) :
        i # j /\ aux_df[i].Index = aux_df[j].Index /\ aux_df[i].Aux = aux_df[j].Aux

\* data_df.join(pvt_df, on='Index'): the T1 column of channel 1
join(rows, aux_df) ==
    [i \in 1..Len(rows) |->
        LET M == {k \in 1..Len(aux_df) :
                     aux_df[k].Aux = 1 /\ Known(aux_df[k].Index) = rows[i].Index}
        IN  IF M = {} THEN rows[i]
            ELSE [rows[i] EXCEPT !.T1 = Known(aux_df[MinOf(M)].T)]]

\* lines 94-97
NdaxPivot ==
    /\ dPc = "pivot"
    /\ IF Len(parts.aux_df) = 0
       THEN /\ dPc' = "cycle"
            /\ UNCHANGED <<dDf, dErr>>
       ELSE IF PivotFails(parts.aux_df)
       THEN /\ Raise(ValueError_Pivot)
            /\ UNCHANGED dDf
       ELSE IF dDf.none
       THEN /\ Raise(AttributeError)
            /\ UNCHANGED dDf
       ELSE /\ dDf' = Table(join(dDf.rows, parts.aux_df))
            /\ dPc' = "cycle"
            /\ UNCHANGED dErr
    /\ UNCHANGED <<file, software_cycle_number, dMode, stream, nRead, nAux, lastRaw, output,
                   aux, parts, dStep0, dWarned>>
    /\ UNCHANGED nonDecVars

-----------------------------------------------------------------------------
(* The record decoders on one frame: the frame is drawn, then the decoder  *)
(* of the stream is applied to it as the frame loops do.                   *)

\* a version 29 file, or a chunk stream of version 2 or 5
CodecStreams ==
    { [role |-> "nda", magic |-> TRUE, version |-> 29, chan |-> 0],
      [role |-> "data.ndc", magic |-> TRUE, version |-> 2, chan |-> 0],
      [role |-> "data.ndc", magic |-> TRUE, version |-> 5, chan |-> 0] }

\* frames classified as data records: every Range of the table and one that is
\* not in it, Index and Status zero or not, Status mapped or not
CodecFrames ==
    [kind : {"data"}, Index : {0, 1}, Cycle : {0}, StepLow : {1}, Step : {1},
     Status : {0, 1, 6}, Jump : {0}, Range : (DOMAIN multiplier_dict) \cup {7},
     Time : {1000}, Voltage : {30000}, Current : {-500, 500},
     Charge_capacity : {3600}, Discharge_capacity : {0}, Charge_energy : {7200},
     Discharge_energy : {0}, Timestamp : {100}]

CodecInit ==
    /\ file = [kind |-> "none", split |-> FALSE]
    /\ software_cycle_number = FALSE
    /\ dMode = <<>>
    /\ dPc = "frame"
    /\ stream \in CodecStreams
    /\ nRead = 0
    /\ nAux = {}
    /\ lastRaw \in CodecFrames
    /\ output = <<>>
    /\ aux = <<>>
    /\ parts = NoParts
    /\ dDf = NoTable
    /\ dStep0 = <<>>
    /\ dWarned = FALSE
    /\ dErr = "none"

\* output.append(decoder(bytes)), or the decoder's exception
Appended(r) ==
    IF r.err = "none"
    THEN /\ output' = Append(output, [empty |-> r.empty, row |-> r.row])
         /\ dPc' = "decoded"
         /\ UNCHANGED dErr
    ELSE /\ Raise(r.err)
         /\ UNCHANGED output

\* _read_nda_29 lines 150-153
Decode29 ==
    /\ dPc = "frame"
    /\ stream.role = "nda"
    /\ Appended(_bytes_to_list(lastRaw))
    /\ UNCHANGED <<file, software_cycle_number, dMode, stream, nRead, nAux, lastRaw, aux,
                   parts, dDf, dStep0, dWarned>>
    /\ UNCHANGED nonDecVars

\* _read_ndc_2 lines 298-299, _read_ndc_5 lines 338-339
DecodeNdc ==
    /\ dPc = "frame"
    /\ stream.role = "data.ndc"
    /\ Appended(_bytes_to_list_ndc(lastRaw))
    /\ UNCHANGED <<file, software_cycle_number, dMode, stream, nRead, nAux, lastRaw, aux,
                   parts, dDf, dStep0, dWarned>>
    /\ UNCHANGED nonDecVars

CodecNext ==
    \/ Decode29
    \/ DecodeNdc

-----------------------------------------------------------------------------
(* _read_nda_29 lines 130-141: the scan for the start of the data section. *)
(* The buffer is the environment. The scan reads of it its size, where the *)
(* identifier 00 00 00 00 55 00 occurs, and for a window starting at       *)
(* header + 4 the byte at header + 4 + record_len and the Status byte at   *)
(* offset 12 of the window; mm holds these, keyed by header. Two           *)
(* occurrences of the identifier lie at least 5 bytes apart, so            *)
(* mm.find(identifier, header + 4) yields the occurrence that follows.     *)

\* line 131
record_len == 86

\* the value mm.find returns when the identifier does not occur
NotFound == 0 - 1

\* where the identifier may occur: at record distance from the first
\* occurrence, and once in between
ScanPositions == {100 + record_len * k : k \in 0..(MaxMarkers - 1)} \cup {120}

\* buffer sizes: too short for any window, and for each position the sizes at
\* which the window after it just ends with the buffer or is followed by a byte
ScanSizes == {50} \cup {p + 4 + record_len + d : p \in ScanPositions, d \in {0, 1}}

\* the buffers: an occurrence one record after another one is the 0x55 that
\* the check of the earlier one reads, and no byte lies past the end
Buffers ==
    {b \in [size : ScanSizes, marks : SUBSET ScanPositions,
            check : [ScanPositions \cup {NotFound} -> BOOLEAN],
            status : [ScanPositions \cup {NotFound} -> BOOLEAN]] :
        /\ \A p \in b.marks : p + 6 <= b.size
        /\ \A p \in b.marks : (p + record_len) \in b.marks => b.check[p]
        /\ \A p \in b.marks : p + 4 + record_len >= b.size => ~b.check[p]
        /\ \A p \in ScanPositions \ b.marks : ~b.check[p] /\ ~b.status[p]}

\* mm.find(identifier, start)
find(buffer, start) ==
    LET S == {p \in buffer.marks : p >= start} IN
    IF S = {} THEN NotFound ELSE MinOf(S)

\* mm[h + 4 + record_len] != 85
CheckByteDiffers(buffer, h) == ~buffer.check[h]

\* _valid_record(mm[h+4 : h+4+record_len]): the Status byte is not zero
_valid_record(buffer, h) == buffer.status[h]

\* lines 136-139: the condition of the while loop
ScanCondition(buffer, h) ==
    IF h + 4 + record_len < buffer.size
    THEN CheckByteDiffers(buffer, h) \/ ~_valid_record(buffer, h)
    ELSE FALSE

ScanInit ==
    /\ mm \in Buffers
    /\ header = 0
    /\ sPc = "find"

\* _read_nda_29 is not scanning
ScanIdle ==
    /\ mm = <<>>
    /\ header = 0
    /\ sPc = "idle"

\* lines 132-135: the first occurrence, or EOFError
ScanFind ==
    /\ sPc = "find"
    /\ header' = find(mm, 0)
    /\ sPc' = IF header' = NotFound THEN "EOFError" ELSE "test"
    /\ UNCHANGED mm
    /\ UNCHANGED nonScanVars

\* lines 136-140: the condition holds; the search goes on from header + 4
ScanRetry ==
    /\ sPc = "test"
    /\ ScanCondition(mm, header)
    /\ header' = find(mm, header + 4)
    /\ UNCHANGED <<mm, sPc>>
    /\ UNCHANGED nonScanVars

\* lines 136-141: the condition does not hold; mm.seek(header + 4)
ScanSeek ==
    /\ sPc = "test"
    /\ ~ScanCondition(mm, header)
    /\ sPc' = "seek"
    /\ UNCHANGED <<mm, header>>
    /\ UNCHANGED nonScanVars

ScanNext ==
    \/ ScanFind
    \/ ScanRetry
    \/ ScanSeek

-----------------------------------------------------------------------------
(* Specifications *)

InitCycle == CycInit /\ IntIdle /\ DecIdle /\ ScanIdle

SpecCycle == InitCycle /\ [][CycNext]_vars

InitInterp == IntInit /\ CycIdle /\ DecIdle /\ ScanIdle

SpecInterp == InitInterp /\ [][IntNext]_vars

InitCodec == CodecInit /\ CycIdle /\ IntIdle /\ ScanIdle

SpecCodec == InitCodec /\ [][CodecNext]_vars

InitScan == ScanInit /\ CycIdle /\ IntIdle /\ DecIdle

SpecScan == InitScan /\ [][ScanNext]_vars

\* the loop of lines 136-140 is not suspended: a step that can be taken is taken
SpecScanFair == SpecScan /\ WF_vars(ScanNext)

Init == DecInit /\ CycIdle /\ IntIdle /\ ScanIdle

Next ==
    \/ NdaBadMagic
    \/ NdaHeader
    \/ NdaVersion29
    \/ NdaVersion130
    \/ NdaUnsupported
    \/ Scan29EOF
    \/ Scan29Found
    \/ Scan29Diverges
    \/ NdaDataFrame
    \/ NdaAuxFrame
    \/ NdaOtherFrame
    \/ NdaFramesEnd
    \/ Nda130FooterFails
    \/ NdaAssemble
    \/ NdaJoinAux
    \/ NdaCountSteps
    \/ NdaxOpenSplit
    \/ SplitDataRecord
    \/ SplitDataEnd
    \/ SplitRunInfoRecord
    \/ SplitRunInfoEnd
    \/ SplitStepRecord
    \/ SplitStepEnd
    \/ SplitMerge
    \/ SplitInterpolate
    \/ NdaxOpenMerged
    \/ ReadNdc25
    \/ ReadNdc11
    \/ ReadNdcUnsupported
    \/ NdcDataFrame
    \/ NdcAuxFrame
    \/ NdcOtherFrame
    \/ NdcFramesEnd
    \/ Ndc11Frame
    \/ Ndc11End
    \/ AuxOpen
    \/ AuxDone
    \/ NdaxPivot
    \/ ReturnAsRead
    \/ ReturnRegenerated

Spec == Init /\ [][Next]_vars

-----------------------------------------------------------------------------
(* Properties of the generated cycle numbers *)

CP_Chg  == <<"C","P","_","C","h","g">>
CP_DChg == <<"C","P","_","D","C","h","g">>

ModeChg  == <<"c","h","g">>
ModeDChg == <<"d","c","h","g">>
ModeAuto == <<"a","u","t","o">>

ChgStatuses  == {CC_Chg, CV_Chg, CCCV_Chg}
DChgStatuses == {CC_DChg, CR_DChg, CV_DChg, CCCV_DChg}

\* the incremental statuses and the off-state statuses of an explicit mode
IncStatusesOf(mode) ==
    IF mode = ModeChg THEN {CCCV_Chg, CC_Chg, CP_Chg} ELSE {CCCV_DChg, CC_DChg, CP_DChg}

OffStatusesOf(mode) ==
    IF mode = ModeChg THEN DChgStatuses ELSE ChgStatuses

\* row n is an increment-start: the first row, or a rising edge of the incremental statuses
IncStart(status, mode, n) ==
    \/ n = 1
    \/ /\ status[n] \in IncStatusesOf(mode)
       /\ status[n-1] \notin IncStatusesOf(mode)

Increases(cyc, n) == n > 1 /\ cyc[n] > cyc[n-1]

\* the last row before n at which the cycle number increased, 0 when there is none
LastIncrease(cyc, n) ==
    LET S == {m \in 2..(n-1) : cyc[m] > cyc[m-1]} IN
    IF S = {} THEN 0 ELSE CHOOSE m \in S : \A k \in S : k <= m

\* an off-state or SIM row lies between the last increase (or the first row) and row n
PendingBefore(status, cyc, mode, n) ==
    \E k \in (LastIncrease(cyc, n) + 1)..(n - 1) :
        status[k] \in OffStatusesOf(mode) \/ status[k] = SIM

ExplicitRun == cArg \in {ModeChg, ModeDChg}

\* C3: for a non-empty Status sequence and mode chg or dchg, the generated Cycle
\* is 1 on the first row, never decreases, changes by at most +1 between
\* consecutive rows, and changes only on an increment-start row.
C3_CycleMonotone ==
    (cPc = "done" /\ ExplicitRun) =>
        /\ Len(cInc) = Len(cStatus)
        /\ cInc[1] = 1
        /\ \A n \in 2..Len(cInc) :
              /\ cInc[n] - cInc[n-1] \in {0, 1}
              /\ (cInc[n] # cInc[n-1] =>
                    /\ cStatus[n] \in IncStatusesOf(cArg)
                    /\ cStatus[n-1] \notin IncStatusesOf(cArg))

C3_Witness ==
    /\ cPc = "done"
    /\ ExplicitRun
    /\ Len(cInc) = 4
    /\ cInc[1] = 1
    /\ cInc[4] = 2

\* the Flag value after row n of the rows processed so far
FlagAfter(n) == IF n < Len(cHist) THEN cHist[n+1] ELSE cFlag

\* C4: the Cycle increases at row n exactly when row n is an increment-start and
\* an off-state or SIM row occurred since the previous increase (or since the
\* first row); Rest, Pause and Cycle rows leave the pending flag as it is.
C4_IncrementPerPair ==
    /\ (cPc = "done" /\ ExplicitRun) =>
          \A n \in 1..Len(cInc) :
              Increases(cInc, n) <=>
                  (IncStart(cStatus, cArg, n) /\ PendingBefore(cStatus, cInc, cArg, n))
    /\ (cPc \in {"loop", "done"} /\ ExplicitRun) =>
          \A n \in 1..Len(cHist) :
              cStatus[n] \in {Rest, Pause, Cycle} => FlagAfter(n) = cHist[n]

\* one increase after an off-state row, and a later increment-start with nothing pending
C4_Witness ==
    /\ cPc = "done"
    /\ cArg = ModeChg
    /\ cStatus = <<CC_DChg, CC_Chg, Rest, CC_Chg>>
    /\ cInc = <<1, 2, 2, 2>>

\* the mode 'auto' infers: from the first non-Rest Status, dchg for a DChg suffix,
\* chg for a Chg suffix, chg when there is no such row or no suffix
RECURSIVE InferredMode(_)
InferredMode(status) ==
    IF status = <<>> THEN ModeChg
    ELSE IF Head(status) = Rest THEN InferredMode(Tail(status))
    ELSE IF Head(status) \in DChgStatuses THEN ModeDChg
    ELSE ModeChg

\* C5: on a non-empty sequence of StatusEnum names, mode 'auto' never fails and
\* yields the cycle numbers of the explicit mode it infers.
C5_AutoMatchesInferred ==
    (cArg = ModeAuto /\ Len(cStatus) > 0) =>
        /\ cPc \notin {"KeyError", "IndexError"}
        /\ cPc \notin {"auto"} => cMode = InferredMode(cStatus)
        /\ cPc = "done" =>
              cInc = _generate_cycle_number(cStatus, InferredMode(cStatus)).val

\* an auto run that resolved to dchg and whose numbers differ from those of chg
C5_Witness ==
    /\ cPc = "done"
    /\ cArg = ModeAuto
    /\ cMode = ModeDChg
    /\ cInc # _generate_cycle_number(cStatus, ModeChg).val

-----------------------------------------------------------------------------
(* Properties of the Gap Interpolator *)

IntRows == 1..Len(iDf0.Time)

MissingOnEntry(i) == iDf0.Time[i].nul

WarnDecided == iPc \in {"interpolate", "extrapolate", "timestamp", "capacity", "energy", "done"}

\* C9: the reconstructed-data warning is emitted if and only if at least one
\* Time value is missing on entry.
C9_WarnIffMissing ==
    WarnDecided => (iWarned <=> \E i \in IntRows : MissingOnEntry(i))

FilledColumns(df, i) ==
    <<df.Time[i], df.Timestamp[i], df.Charge_Capacity[i], df.Discharge_Capacity[i],
      df.Charge_Energy[i], df.Discharge_Energy[i]>>

\* C10: a row whose Time is known on entry keeps its Time, Timestamp, capacities
\* and energies; when no Time is missing these columns are unchanged as a whole.
C10_KnownRowsKept ==
    iPc # "idle" =>
        /\ \A i \in IntRows :
              ~MissingOnEntry(i) => FilledColumns(iDf, i) = FilledColumns(iDf0, i)
        /\ (\A i \in IntRows : ~MissingOnEntry(i)) =>
              /\ iDf.Time = iDf0.Time
              /\ iDf.Timestamp = iDf0.Timestamp
              /\ iDf.Charge_Capacity = iDf0.Charge_Capacity
              /\ iDf.Discharge_Capacity = iDf0.Discharge_Capacity
              /\ iDf.Charge_Energy = iDf0.Charge_Energy
              /\ iDf.Discharge_Energy = iDf0.Discharge_Energy

\* the function has finished, a missing row was reconstructed, and a known row
\* follows a reconstructed one
C10_Witness ==
    /\ iPc = "done"
    /\ \E i, j \in IntRows :
          /\ i < j
          /\ MissingOnEntry(i)
          /\ ~iDf.Time[i].nul
          /\ ~iDf.Charge_Capacity[i].nul
          /\ iDf.Charge_Capacity[i] # iDf.Charge_Capacity[j]
          /\ ~MissingOnEntry(j)

-----------------------------------------------------------------------------
(* Properties of the record decoders *)

\* the frame has been handed to the decoder of its stream
FrameDecoded == lastRaw # NoRaw /\ dPc \in {"decoded", "failed"}

AbsentRange == lastRaw.Range \notin DOMAIN multiplier_dict

\* the record was neither appended nor refused: the decoder returned []
Dropped == dPc = "decoded" /\ dErr = "none" /\ output = <<[empty |-> TRUE, row |-> EmptyRow]>>

RefusedForRange == dPc = "failed" /\ dErr = KeyError_Range /\ output = <<>>

\* the record was appended with its fields
Emitted == dPc = "decoded" /\ Len(output) = 1 /\ ~output[1].empty

\* C7 as stated: a data record whose Range is not in the table makes the decode
\* fail with the Range error, whatever its Index and Status are.
C7_AbsentRangeAlwaysFails ==
    (FrameDecoded /\ AbsentRange) => RefusedForRange

\* C7: a chunk record of version 2 or 5 whose Range is not in the table is
\* refused with the Range error whatever its other fields are; a version 29
\* record is refused likewise unless its Index or its Status is zero, in which
\* case it is dropped before the Range is looked up; an emitted record carries
\* the raw current times the multiplier of its Range (Range 1000 and raw current
\* 500 give 50 mA).
C7_RangeLookup ==
    FrameDecoded =>
        /\ (stream.role = "data.ndc" /\ AbsentRange) => RefusedForRange
        /\ (stream.role = "nda" /\ AbsentRange) =>
              IF lastRaw.Index = 0 \/ lastRaw.Status = 0 THEN Dropped
              ELSE RefusedForRange
        /\ Emitted =>
              /\ ~AbsentRange
              /\ output[1].row.Current = Known(lastRaw.Current * multiplier_dict[lastRaw.Range])
              /\ (lastRaw.Range = 1000 /\ lastRaw.Current = 500) =>
                    output[1].row.Current.v = 50 * 1000

\* a version 29 record with Index 0 and a Range that is not in the table has
\* been dropped without an error
C7_Witness ==
    /\ FrameDecoded
    /\ stream.role = "nda"
    /\ AbsentRange
    /\ lastRaw.Index = 0
    /\ lastRaw.Status # 0
    /\ Dropped

-----------------------------------------------------------------------------
(* Properties of the decode entry points *)

Returned_nda == file.kind = "nda" /\ dPc = "returned"

IndexColumn == [i \in 1..Len(dDf.rows) |-> dDf.rows[i].Index.v]

\* C1: in every table an entry point returns, Index is strictly increasing in
\* row order (and so pairwise distinct).
C1_IndexStrictlyIncreasing ==
    dPc = "returned" =>
        \A i \in 1..(Len(dDf.rows) - 1) : IndexColumn[i] < IndexColumn[i + 1]

\* the rows whose raw Step differs from the row before, the first row included
\* and the last row excluded, up to row n
CountedChanges(raw, n) ==
    {k \in 1..n : k < Len(raw) /\ (k = 1 \/ raw[k] # raw[k - 1])}

StepColumnOf(rows) == [i \in 1..Len(rows) |-> rows[i].Step]

StatusColumnOf(rows) == [i \in 1..Len(rows) |-> rows[i].Status]

\* the Step field of a version 29 record with low Step bytes 1 and the Status code c
RawStepOf(c) == Known(1 + 65536 * c)

HandledNda == {29, 130}

HandledNdc == {2, 5, 11}

\* the versions some reader names
NamedNdc == {2, 5, 11, 14}

\* a stream that read_ndc opens: the merged data.ndc or an auxiliary stream
ReadNdcStream == stream.role = "aux" \/ (stream.role = "data.ndc" /\ ~file.split)

\* a stream one of the three split-role readers opens
SplitRoleStream ==
    file.split /\ stream.role \in {"data.ndc", "data_runInfo.ndc", "data_step.ndc"}

FailedWith(e) == dPc = "failed" /\ dErr = e

\* the header of the open stream is one the claim calls a structural error
StructuralError ==
    \/ stream.role = "nda" /\ ~stream.magic
    \/ stream.role = "nda" /\ stream.version \notin HandledNda
    \/ (ReadNdcStream \/ SplitRoleStream) /\ stream.version \notin NamedNdc

\* the records decoded so far from the open stream
RecordsOfStream ==
    CASE SplitRoleStream /\ stream.role = "data.ndc" -> parts.data
      [] SplitRoleStream /\ stream.role = "data_runInfo.ndc" -> parts.runInfo
      [] SplitRoleStream /\ stream.role = "data_step.ndc" -> parts.step
      [] OTHER -> output

ArgumentsRead == dMode # <<>>

RecognizedMode(mode) == lower(mode) \in {<<"c","h","g">>, <<"d","c","h","g">>, <<"a","u","t","o">>}

\* C8 as stated: with a cycle_mode that is none of chg, dchg, auto the decode
\* fails with the mode error and returns no table, for either value of
\* software_cycle_number.
C8_UnknownModeAlwaysFails ==
    (ArgumentsRead /\ ~RecognizedMode(dMode)) => FailedWith(KeyError_Mode)

\* C8: a decode that reaches the cycle-number step with software_cycle_number
\* true and a cycle_mode whose lower-case form is none of chg, dchg, auto fails
\* with the mode error and returns no table; with software_cycle_number false
\* the cycle_mode is not examined and the mode error is never raised.
C8_UnknownModeFailsWhenRegenerating ==
    ArgumentsRead =>
        /\ (software_cycle_number /\ ~RecognizedMode(dMode)) => FailedWith(KeyError_Mode)
        /\ dErr = KeyError_Mode => (software_cycle_number /\ ~RecognizedMode(dMode))

\* a table has been returned for an unknown cycle_mode, software_cycle_number
\* being false
C8_Witness ==
    /\ ArgumentsRead
    /\ ~RecognizedMode(dMode)
    /\ ~software_cycle_number
    /\ dPc = "returned"
    /\ Len(dDf.rows) > 0

-----------------------------------------------------------------------------
(* Properties of the reconstructed Time column *)

\* lines 117-125 have run: the Time column is final
TimeFilled == iPc \in {"timestamp", "capacity", "energy", "done"}

\* the rows of the Step of row i whose Time is known on entry
KnownInStep(i) ==
    {j \in IntRows : ~MissingOnEntry(j) /\ iDf0.Step[j] = iDf0.Step[i]}

LeftBound(i) == {j \in KnownInStep(i) : j < i}

RightBound(i) == {j \in KnownInStep(i) : j > i}

\* a missing row with a known Time on both sides in its Step
InteriorGap(i) == MissingOnEntry(i) /\ LeftBound(i) # {} /\ RightBound(i) # {}

\* a missing row after the last known Time of its Step
TrailingGap(i) == MissingOnEntry(i) /\ LeftBound(i) # {} /\ RightBound(i) = {}

\* the Time column with its interior gaps filled linearly
InteriorFilled(i) ==
    IF ~MissingOnEntry(i) THEN iDf0.Time[i]
    ELSE IF InteriorGap(i)
         THEN LET l == MaxOf(LeftBound(i))
                  r == MinOf(RightBound(i))
              IN  Known(iDf0.Time[l].v
                        + ((iDf0.Time[r].v - iDf0.Time[l].v) * (i - l)) \div (r - l))
         ELSE NaN

\* the rows up to row l at which the forward difference of that column is known
KnownDifferences(l) ==
    {j \in 2..l : ~InteriorFilled(j).nul /\ ~InteriorFilled(j - 1).nul}

LastDifference(l) ==
    LET j == MaxOf(KnownDifferences(l)) IN InteriorFilled(j).v - InteriorFilled(j - 1).v

\* C11: a run of missing Time values with a known Time on both sides in its
\* Step is filled linearly between the two, and a trailing run with no known
\* Time after it in its Step is filled, its k-th row with the last known Time of
\* the Step plus k times the last known forward difference.
C11_GapsFilled ==
    TimeFilled =>
        \A i \in IntRows :
            /\ InteriorGap(i) => iDf.Time[i] = InteriorFilled(i)
            /\ TrailingGap(i) =>
                  LET l == MaxOf(LeftBound(i)) IN
                  /\ ~iDf.Time[i].nul
                  /\ KnownDifferences(l) # {} =>
                        iDf.Time[i].v = iDf0.Time[l].v + (i - l) * LastDifference(l)

-----------------------------------------------------------------------------
(* Properties of the Cycle column of a returned table *)

CycleColumn == [i \in 1..Len(dDf.rows) |-> dDf.rows[i].Cycle]

\* C12: every row of a table an entry point returns has Cycle >= 1, whether the
\* Cycle was regenerated or taken from the file.
C12_CycleIsOneBased ==
    dPc = "returned" =>
        \A i \in 1..Len(dDf.rows) : ~CycleColumn[i].nul /\ CycleColumn[i].v >= 1

-----------------------------------------------------------------------------
(* Properties of the scan for the data section of a version 29 buffer *)

\* the scan has ended: mm.seek(header + 4) was reached, or EOFError was raised
ScanEnded == sPc \in {"seek", "EOFError"}

\* C13: for every version 29 buffer the scan for the start of the data section
\* terminates, at a marker occurrence or with EOFError; it does not search on
\* from the not-found position and does not loop forever.
C13_ScanTerminates == <>ScanEnded

\* the occurrence at p passes both checks of the scan: the byte after its
\* window exists and is 0x55, and the Status byte of its window is not zero
Validated(buffer, p) ==
    /\ p + 4 + record_len < buffer.size
    /\ buffer.check[p]
    /\ _valid_record(buffer, p)

\* C14: when the scan ends without error, the position it selects is a marker
\* occurrence that passed both validity checks, also when it lies within 86
\* bytes of the end of the buffer, and no earlier occurrence that passes them
\* was passed over.
C14_SelectedIsValidated ==
    sPc = "seek" =>
        /\ header \in mm.marks
        /\ Validated(mm, header)
        /\ \A q \in mm.marks : q < header => ~Validated(mm, q)

-----------------------------------------------------------------------------
(* Properties of the recomputed Step of the first row *)

\* _count_changes has run on the non-empty Step column of read_nda
StepsCounted == file.kind = "nda" /\ Len(dStep0) > 0

\* C15: for every non-empty Step column, one of a single row included,
\* _count_changes gives the first row Step 1.
C15_FirstRowIsStepOne ==
    StepsCounted => dDf.rows[1].Step = Known(1)

-----------------------------------------------------------------------------
(* Properties of the order of the reconstructed Time column *)

\* rows i < j of one Step
SameStepPairs(df) ==
    {p \in IntRows \X IntRows : p[1] < p[2] /\ df.Step[p[1]] = df.Step[p[2]]}

\* the Time values of the column that are known are non-negative, and
\* non-decreasing in row order within each Step
OrderedInSteps(df) ==
    /\ \A i \in IntRows : ~df.Time[i].nul => df.Time[i].v >= 0
    /\ \A p \in SameStepPairs(df) :
          (~df.Time[p[1]].nul /\ ~df.Time[p[2]].nul) => df.Time[p[1]].v <= df.Time[p[2]].v

\* C16: when the Time values known on entry are non-negative and non-decreasing
\* within each Step, so are the Time values after reconstruction.
C16_TimeStaysOrdered ==
    (TimeFilled /\ OrderedInSteps(iDf0)) => OrderedInSteps(iDf)

====
